---- MODULE Spec2Model ----
(***************************************************************************)
(* State-machine model of the resource-coordination core of                *)
(* pm_intelligence.utils:                                                  *)
(*   batch_processor.py   BatchProcessor                                   *)
(*   resource_manager.py  RateLimiter, ResourceManager                     *)
(*   cache_manager.py     L1Cache, L2Cache, L3Cache, CacheManager          *)
(*                                                                         *)
(* The three components share no state, so each has its own group of       *)
(* variables and its own specification; a specification keeps the other    *)
(* groups at their initial value.                                          *)
(*                                                                         *)
(* asyncio runs one task at a time and switches tasks only at an await     *)
(* that really suspends.  One action of the model is therefore one run of  *)
(* a task from one suspension point to the next.                           *)
(***************************************************************************)
EXTENDS Integers, Sequences, FiniteSets, TLC

VARIABLES
    \* ---- BatchProcessor (batch_processor.py)
    bp_pending,      \* self.pending: kind -> list of queued items (<<>>: key absent)
    bp_timers,       \* self._timers: kind -> "none" | "armed" | "done"
    bp_sched,        \* flush tasks made by asyncio.create_task in add, not yet run
    bp_inflight,     \* batches whose processor call is suspended (in a flush task)
    bp_item,         \* item id -> [state, kind, retry]: the BatchItem and its future
    bp_resolved,     \* item id -> number of times its future was resolved
    bp_calls,        \* kind -> the lists handed to its processor, in invocation order
    bp_batch_sizes,  \* _adaptive_params["batch_sizes"]
    bp_wait_times,   \* _adaptive_params["wait_times"], in hundredths of a second
    bp_success,      \* _adaptive_params["success_rates"], in units of 1/SrScale
    bp_stats,        \* self._stats: total_items, total_batches, total_failures
    bp_cfg,          \* constructor arguments: max_retries, adaptive
    bp_scen,         \* observer: kind -> the last threshold submission and its phase
    bp_lock,         \* self._lock is held
    bp_shut,         \* the task that called shutdown: where it is, what it flushes
    bp_obs,          \* observer: errors raised by add, invocations cancelled
    bp_time,         \* the clock, the end of each timer's sleep, the re-queue times
    \* ---- RateLimiter (resource_manager.py), one limiter and its callers
    rl,              \* tokens, last_update, the asyncio.Lock and its waiters, the clock
    rl_task,         \* caller -> [pc, op, n, wake, ret]
    rl_run,          \* observer: a burst of single acquires and the acquire after it
    \* ---- ResourceManager (resource_manager.py)
    rm,              \* semaphores, usage stats, the rate limiter
    rm_task,         \* caller -> its call in progress, its last result, what it holds
    rm_run,          \* observer: the sequence of calls being followed
    \* ---- CacheManager (cache_manager.py)
    cache,           \* the three tiers, their statistics, the suspended calls
    cache_run        \* observer: a set, clear of tier 1, get sequence on one key

bpvars == <<bp_pending, bp_timers, bp_sched, bp_inflight, bp_item, bp_resolved,
            bp_calls, bp_batch_sizes, bp_wait_times, bp_success, bp_stats, bp_cfg,
            bp_scen, bp_lock, bp_shut, bp_obs, bp_time>>

rlvars == <<rl, rl_task, rl_run>>

rmvars == <<rm, rm_task, rm_run>>

cachevars == <<cache, cache_run>>

vars == <<bpvars, rlvars, rmvars, cachevars>>

\* What the actions of one component leave alone: the other components.
notBP == <<rlvars, rmvars, cachevars>>
notRL == <<bpvars, rmvars, cachevars>>
notRM == <<bpvars, rlvars, cachevars>>
notCache == <<bpvars, rlvars, rmvars>>

-----------------------------------------------------------------------------
(* Bounds of the model *)

MaxItems == 3          \* items submitted with add in one behaviour
MaxRetriesBound == 2   \* max_retries is drawn from 0..MaxRetriesBound
BatchSize == 2         \* the configured batch_size
MaxTime == 4           \* the clock runs from 0 to MaxTime ticks
TicksPerToken == 2     \* a limiter refills one token every TicksPerToken ticks
BurstSize == 2         \* burst_size of every RateLimiter
MaxRejected == 2       \* try_acquire calls rejected in one behaviour
DefaultConcurrent == 2 \* max_concurrent of the class "default"
MaxUnmatched == 1      \* release calls without a prior acquire in one behaviour
L1Size == 1            \* l1_size of the CacheManager
MaxTtl == 1            \* largest ttl passed to CacheManager.set, in ticks
MaxOps == 3            \* CacheManager calls in one behaviour
MaxL1Ops == 4          \* calls of an L1Cache of its own in one behaviour
MaxBadAdds == 1        \* add calls for a kind without a processor in one behaviour
MaxClock == 3             \* ticks of the clock the BatchProcessor is followed for
MaxCycles == 2            \* enter/exit cycles of one ResourceContext object
MaxAcquired == 3       \* acquires counted when the callers stop calling
MaxWaited == 2         \* ticks of the clock where the usage statistics are followed
MaxConfigures == 1     \* calls of configure_resource in one behaviour

-----------------------------------------------------------------------------
(* BatchProcessor *)

Kinds == {"k1", "k2"}
ItemIds == 1..MaxItems

\* success_rates are floats in [0, 1]; the model keeps them in millionths.
SrScale == 1000000

SeqToSet(s) == {s[n] : n \in 1..Len(s)}

\* _get_batch_size
GetBatchSize(k) ==
    IF bp_cfg.adaptive THEN bp_batch_sizes[k] ELSE BatchSize

\* _update_success_rate with alpha = 0.5
UpdateSuccessRateHalf(cur, success) == (success * SrScale + cur) \div 2

\* _update_success_rate: alpha * success + (1 - alpha) * current, alpha = 0.1
UpdateSuccessRate(cur, success) == (success * SrScale + 9 * cur) \div 10

\* _adapt_parameters, the batch-size half: int(new_batch_size)
AdaptBatchSize(cur, rate) ==
    IF rate * 20 > 19 * SrScale
    THEN (IF 11 * cur < 20 * BatchSize THEN (11 * cur) \div 10 ELSE 2 * BatchSize)
    ELSE IF rate * 5 < 4 * SrScale
         THEN (IF 9 * cur > 10 THEN (9 * cur) \div 10 ELSE 1)
         ELSE cur

\* __init__, line 35: wait_time, in hundredths of a second.
BaseWait == 50

\* _adapt_parameters, lines 261 and 264: the longest and the shortest window.
LongestWait == 200
ShortestWait == 10

\* _get_wait_time (lines 219-223)
GetWaitTime(k) ==
    IF bp_cfg.adaptive THEN bp_wait_times[k] ELSE BaseWait

\* A processor that returns does so at more than 100 items per second
\* ("return_fast"), at fewer than 10 ("return_slow") or in between ("return").
Returns == {"return", "return_fast", "return_slow"}

\* _adapt_parameters, the wait-time half (lines 254-268): the new window is
\* computed from self.wait_time.
AdaptWaitTime(outcome) ==
    CASE outcome = "return_fast" ->
            IF 12 * BaseWait < 10 * LongestWait THEN (12 * BaseWait) \div 10
            ELSE LongestWait
      [] outcome = "return_slow" ->
            IF 8 * BaseWait > 10 * ShortestWait THEN (8 * BaseWait) \div 10
            ELSE ShortestWait
      [] OTHER -> BaseWait

\* The clock is followed only when on: now is the time in hundredths of a
\* second, due[k] the time at which the sleep of the kind's timer task ends
\* (lines 119-121), since[i] the time at which item i was last re-queued.
NoTime(on) ==
    [on |-> on, now |-> 0, due |-> [k \in Kinds |-> 0],
     since |-> [i \in ItemIds |-> 0]]

\* asyncio.create_task(self._flush_after_delay(k, wait_time)) at time now.
TimerArmed(t, k, wait_time) ==
    IF t.on THEN [t EXCEPT !.due[k] = t.now + wait_time] ELSE t

\* The observer of threshold submissions.  It records, at the add that brings a
\* queue of never-flushed items to exactly the kind's current threshold, those
\* items ("waiting"), whether a flush of the kind was then scheduled or in flight
\* (quiet = FALSE), and later that a flush task ran ("flushed").  A further add
\* or the firing of the timer before that flush ends the observation.
NoScen == [phase |-> "none", items |-> <<>>, quiet |-> TRUE]

\* No task has called shutdown.  The task that calls it is "running" while the
\* processor it invoked (on batch) is suspended, with the kinds it has still to
\* flush (todo), and "returned" after; queued: the items that were in a queue
\* when it was called.
NoShutdown == [pc |-> "idle", batch |-> <<>>, todo |-> <<>>, queued |-> {}]

\* Nothing observed: the number of add calls that raised ValueError and the
\* batches whose processor invocation got CancelledError.
NoObs == [errors |-> 0, cancelled |-> {}]

BPAtRestAt(cfgs, clocked) ==
    /\ bp_pending = [k \in Kinds |-> <<>>]
    /\ bp_timers = [k \in Kinds |-> "none"]
    /\ bp_sched = [k \in Kinds |-> 0]
    /\ bp_inflight = {}
    /\ bp_item = [i \in ItemIds |-> [state |-> "new", kind |-> "k1", retry |-> 0]]
    /\ bp_resolved = [i \in ItemIds |-> 0]
    /\ bp_calls = [k \in Kinds |-> <<>>]
    /\ bp_batch_sizes = [k \in Kinds |-> BatchSize]
    /\ bp_wait_times = [k \in Kinds |-> BaseWait]
    /\ bp_success = [k \in Kinds |-> SrScale]
    /\ bp_stats = [total_items |-> 0, total_batches |-> 0, total_failures |-> 0]
    /\ bp_cfg \in cfgs
    /\ bp_scen = [k \in Kinds |-> NoScen]
    /\ bp_lock = FALSE
    /\ bp_shut = NoShutdown
    /\ bp_obs = NoObs
    /\ bp_time = NoTime(clocked)

BPAtRest(cfgs) == BPAtRestAt(cfgs, FALSE)

\* __init__ (lines 32-70), for every max_retries up to the bound, adaptive or not.
BPConfigs == [max_retries : 0..MaxRetriesBound, adaptive : BOOLEAN]

\* The handing of a drained list to the kind's registered processor (lines
\* 152-156): the invocation is logged.
Invoked(k, items) == [bp_calls EXCEPT ![k] = Append(@, items)]

\* The number of processor invocations that received item i so far.
Handed(i) ==
    Cardinality({n \in 1..Len(bp_calls[bp_item[i].kind]) :
                    i \in SeqToSet(bp_calls[bp_item[i].kind][n])})

\* _handle_failed_batch, line 188: the test that sends an item to a retry.
ShouldRetryOffByOne(i) == bp_item[i].retry <= bp_cfg.max_retries

ShouldRetry(i) == bp_item[i].retry < bp_cfg.max_retries

\* _handle_failed_batch, lines 185-191: retry_items, in the order of the batch.
RetryItems(items) == SelectSeq(items, ShouldRetry)

\* _handle_failed_batch, lines 187-194: retry_count += 1 for an item that is
\* retried, future.set_exception(error) for the others.
FailItems(items) ==
    [i \in ItemIds |->
        IF i \notin SeqToSet(items) THEN bp_item[i]
        ELSE IF ShouldRetry(i)
             THEN [bp_item[i] EXCEPT !.retry = @ + 1]
             ELSE [bp_item[i] EXCEPT !.state = "failed"]]

\* The processor returned (lines 156-161); a processor that returns has resolved
\* every item it was given.  pend, tim and infl are self.pending, self._timers
\* and the suspended invocations as the caller left them.
ProcessorReturned(k, items, pend, tim, infl, outcome) ==
    /\ bp_pending' = pend
    /\ bp_timers' = tim
    /\ bp_inflight' = infl
    /\ bp_item' = [i \in ItemIds |->
                      IF i \in SeqToSet(items)
                      THEN [bp_item[i] EXCEPT !.state = "ok"] ELSE bp_item[i]]
    /\ bp_resolved' = [i \in ItemIds |->
                      IF i \in SeqToSet(items) THEN bp_resolved[i] + 1 ELSE bp_resolved[i]]
    /\ IF bp_cfg.adaptive
       THEN LET rate == UpdateSuccessRate(bp_success[k], 1)
            IN /\ bp_success' = [bp_success EXCEPT ![k] = rate]
               /\ bp_batch_sizes' =
                     [bp_batch_sizes EXCEPT ![k] = AdaptBatchSize(@, rate)]
               /\ bp_wait_times' =
                     [bp_wait_times EXCEPT ![k] = AdaptWaitTime(outcome)]
       ELSE UNCHANGED <<bp_success, bp_batch_sizes, bp_wait_times>>
    /\ UNCHANGED bp_time

\* _handle_failed_batch, lines 197-200: the items of retry are queued again.
Requeued(t, retry) ==
    IF t.on
    THEN [t EXCEPT !.since = [i \in ItemIds |->
                                IF i \in SeqToSet(retry) THEN t.now ELSE @[i]]]
    ELSE t

\* _handle_failed_batch, lines 204-206: the delay of the retry timer, from the
\* retry_count (already incremented) of the first re-queued item.
BackoffWait(k, retry) == GetWaitTime(k) * 2 ^ (bp_item[retry[1]].retry + 1)

\* The processor raised, and _handle_failed_batch re-queues the retried items
\* without the timer of lines 203-211.
ProcessorRaisedNoTimer(k, items, pend, tim, infl) ==
    LET retry == RetryItems(items)
    IN /\ bp_pending' = [pend EXCEPT ![k] = @ \o retry]
       /\ bp_timers' = tim
       /\ bp_inflight' = infl
       /\ bp_item' = FailItems(items)
       /\ bp_resolved' = [i \in ItemIds |->
                             IF i \in SeqToSet(items) /\ i \notin SeqToSet(retry)
                             THEN bp_resolved[i] + 1 ELSE bp_resolved[i]]
       /\ bp_success' = IF bp_cfg.adaptive
                        THEN [bp_success EXCEPT ![k] = UpdateSuccessRate(@, 0)]
                        ELSE bp_success
       /\ bp_time' = Requeued(bp_time, retry)
       /\ UNCHANGED <<bp_batch_sizes, bp_wait_times>>

\* The processor raised (lines 163-179), then _handle_failed_batch (181-211).
\* Nothing between the raise and the end of _handle_failed_batch suspends: the
\* lock is free whenever a task runs.
ProcessorRaised(k, items, pend, tim, infl) ==
    LET retry == RetryItems(items)
    IN /\ bp_pending' = [pend EXCEPT ![k] = @ \o retry]
       /\ bp_timers' = IF retry # <<>> /\ tim[k] = "none"
                       THEN [tim EXCEPT ![k] = "armed"] ELSE tim
       /\ bp_inflight' = infl
       /\ bp_item' = FailItems(items)
       /\ bp_resolved' = [i \in ItemIds |->
                             IF i \in SeqToSet(items) /\ i \notin SeqToSet(retry)
                             THEN bp_resolved[i] + 1 ELSE bp_resolved[i]]
       /\ bp_success' = IF bp_cfg.adaptive
                        THEN [bp_success EXCEPT ![k] = UpdateSuccessRate(@, 0)]
                        ELSE bp_success
       /\ bp_time' = IF retry # <<>> /\ tim[k] = "none"
                     THEN TimerArmed(Requeued(bp_time, retry), k, BackoffWait(k, retry))
                     ELSE Requeued(bp_time, retry)
       /\ UNCHANGED <<bp_batch_sizes, bp_wait_times>>

\* add (lines 79-117) for a kind with a registered processor, up to the await of
\* the future.  Items are numbered in submission order.
Add(k) ==
    /\ bp_stats.total_items < MaxItems
    /\ ~bp_lock
    /\ LET i == bp_stats.total_items + 1
           q == Append(bp_pending[k], i)
       IN /\ bp_item' = [bp_item EXCEPT ![i] = [state |-> "pending", kind |-> k, retry |-> 0]]
          /\ bp_pending' = [bp_pending EXCEPT ![k] = q]
          /\ bp_stats' = [bp_stats EXCEPT !.total_items = @ + 1]
          /\ bp_timers' = IF bp_timers[k] = "none"
                          THEN [bp_timers EXCEPT ![k] = "armed"] ELSE bp_timers
          /\ bp_time' = IF bp_timers[k] = "none"
                        THEN TimerArmed(bp_time, k, GetWaitTime(k)) ELSE bp_time
          /\ bp_sched' = IF Len(q) >= GetBatchSize(k)
                         THEN [bp_sched EXCEPT ![k] = @ + 1] ELSE bp_sched
          /\ bp_scen' =
                IF Len(q) = GetBatchSize(k) /\ \A j \in SeqToSet(q) : Handed(j) = 0
                THEN [bp_scen EXCEPT ![k] =
                        [phase |-> "waiting", items |-> q,
                         quiet |-> /\ bp_sched[k] = 0
                                   /\ \A b \in bp_inflight : bp_item[b[1]].kind # k]]
                ELSE IF bp_scen[k].phase = "waiting"
                     THEN [bp_scen EXCEPT ![k] = NoScen] ELSE bp_scen
    /\ UNCHANGED <<bp_inflight, bp_resolved, bp_calls, bp_batch_sizes, bp_wait_times,
                   bp_success, bp_cfg, bp_lock, bp_shut, bp_obs, notBP>>

\* The kinds callers name that have no registered processor.
Unregistered == {"k0"}

\* add with the check of lines 87-88 after the bookkeeping of line 101.
AddCountedUnregistered(k) ==
    /\ k \in Unregistered
    /\ bp_obs.errors < MaxBadAdds
    /\ bp_obs' = [bp_obs EXCEPT !.errors = @ + 1]
    /\ bp_stats' = [bp_stats EXCEPT !.total_items = @ + 1]
    /\ UNCHANGED <<bp_pending, bp_timers, bp_sched, bp_inflight, bp_item,
                   bp_resolved, bp_calls, bp_batch_sizes, bp_wait_times, bp_success,
                   bp_cfg, bp_scen, bp_lock, bp_shut, bp_time, notBP>>

\* add (lines 79-117) for a kind that has no registered processor: ValueError
\* is raised at line 88, before the item is made.
AddUnregistered(k) ==
    /\ k \in Unregistered
    /\ bp_obs.errors < MaxBadAdds
    /\ bp_obs' = [bp_obs EXCEPT !.errors = @ + 1]
    /\ UNCHANGED <<bp_pending, bp_timers, bp_sched, bp_inflight, bp_item,
                   bp_resolved, bp_calls, bp_batch_sizes, bp_wait_times, bp_success, bp_stats,
                   bp_cfg, bp_scen, bp_lock, bp_shut, bp_time, notBP>>

\* _flush_batch, line 131: the list the drain takes out of self.pending.
DrainedNewestFirst(k) ==
    [n \in 1..Len(bp_pending[k]) |-> bp_pending[k][Len(bp_pending[k]) + 1 - n]]

Drained(k) == bp_pending[k]

\* _flush_batch with the processor awaited inside `async with self._lock`.
LockedAcrossProcessor(k) == TRUE

\* _flush_batch, lines 126-136: the `async with self._lock` block ends, and the
\* lock is released, before the processor is awaited at line 156.
LockedAfterDrain(k) == FALSE

\* _flush_batch with the timer left in self._timers.
TimersKept(k) == bp_timers

\* _flush_batch, lines 126-136: what the drain leaves in self._timers.
TimersAfterDrain(k) ==
    IF bp_timers[k] # "none" THEN [bp_timers EXCEPT ![k] = "none"] ELSE bp_timers

\* _flush_after_delay (lines 119-122): the sleep of the kind's timer task ends
\* and the task runs _flush_batch.  The drain cancels self._timers[k], which is
\* the running task itself, so the task gets CancelledError at the first await
\* that suspends.  A processor that returns or raises without suspending is not
\* affected; one that suspends is cancelled there, CancelledError is not an
\* Exception, and the flush ends with its items neither resolved nor re-queued.
TimerFire(k, outcome) ==
    /\ bp_timers[k] = "armed"
    /\ bp_time.on => bp_time.now >= bp_time.due[k]
    /\ ~bp_lock
    /\ IF bp_pending[k] = <<>>
       THEN \* line 127: return before the timer bookkeeping; the entry stays
            /\ outcome = "return"
            /\ bp_timers' = [bp_timers EXCEPT ![k] = "done"]
            /\ UNCHANGED <<bp_pending, bp_inflight, bp_item, bp_resolved, bp_calls,
                           bp_batch_sizes, bp_wait_times, bp_success, bp_stats,
                           bp_time>>
       ELSE LET items == Drained(k)
                pend == [bp_pending EXCEPT ![k] = <<>>]
                tim == TimersAfterDrain(k)
            IN /\ bp_calls' = Invoked(k, items)
               /\ CASE outcome \in Returns ->
                         /\ ProcessorReturned(k, items, pend, tim, bp_inflight, outcome)
                         /\ bp_stats' = [bp_stats EXCEPT !.total_batches = @ + 1]
                    [] outcome = "raise" ->
                         /\ ProcessorRaised(k, items, pend, tim, bp_inflight)
                         /\ bp_stats' = [bp_stats EXCEPT !.total_batches = @ + 1,
                                                         !.total_failures = @ + Len(items)]
                    [] outcome = "suspend" ->
                         /\ bp_pending' = pend
                         /\ bp_timers' = tim
                         /\ bp_stats' = [bp_stats EXCEPT !.total_batches = @ + 1]
                         /\ UNCHANGED <<bp_inflight, bp_item, bp_resolved,
                                        bp_batch_sizes, bp_wait_times, bp_success,
                                        bp_time>>
    /\ bp_scen' = IF bp_scen[k].phase = "waiting"
                  THEN [bp_scen EXCEPT ![k] = NoScen] ELSE bp_scen
    /\ bp_obs' = IF bp_pending[k] # <<>> /\ outcome = "suspend"
                 THEN [bp_obs EXCEPT !.cancelled = @ \cup {Drained(k)}]
                 ELSE bp_obs
    /\ UNCHANGED <<bp_sched, bp_cfg, bp_lock, bp_shut, notBP>>

\* A flush task made by add (line 114) runs _flush_batch up to the first
\* suspension: the end of the flush when the processor does not suspend.
FlushRun(k, outcome) ==
    /\ bp_sched[k] > 0
    /\ ~bp_lock
    /\ bp_sched' = [bp_sched EXCEPT ![k] = @ - 1]
    /\ IF bp_pending[k] = <<>>
       THEN /\ outcome = "return"
            /\ UNCHANGED <<bp_pending, bp_timers, bp_inflight, bp_item, bp_resolved,
                           bp_calls, bp_batch_sizes, bp_wait_times, bp_success,
                           bp_stats, bp_time>>
       ELSE LET items == Drained(k)
                pend == [bp_pending EXCEPT ![k] = <<>>]
                tim == TimersAfterDrain(k)
            IN /\ bp_calls' = Invoked(k, items)
               /\ CASE outcome \in Returns ->
                         /\ ProcessorReturned(k, items, pend, tim, bp_inflight, outcome)
                         /\ bp_stats' = [bp_stats EXCEPT !.total_batches = @ + 1]
                    [] outcome = "raise" ->
                         /\ ProcessorRaised(k, items, pend, tim, bp_inflight)
                         /\ bp_stats' = [bp_stats EXCEPT !.total_batches = @ + 1,
                                                         !.total_failures = @ + Len(items)]
                    [] outcome = "suspend" ->
                         /\ bp_pending' = pend
                         /\ bp_timers' = tim
                         /\ bp_inflight' = bp_inflight \cup {items}
                         /\ bp_stats' = [bp_stats EXCEPT !.total_batches = @ + 1]
                         /\ UNCHANGED <<bp_item, bp_resolved, bp_batch_sizes,
                                        bp_wait_times, bp_success, bp_time>>
    /\ bp_scen' = IF bp_scen[k].phase = "waiting"
                  THEN [bp_scen EXCEPT ![k].phase = "flushed"] ELSE bp_scen
    /\ bp_lock' = IF bp_pending[k] # <<>> /\ outcome = "suspend"
                  THEN LockedAfterDrain(k) ELSE FALSE
    /\ UNCHANGED <<bp_cfg, bp_shut, bp_obs, notBP>>

\* A suspended processor invocation of a flush task ends: it returns or raises.
ProcFinish(items, outcome) ==
    /\ items \in bp_inflight
    /\ LET k == bp_item[items[1]].kind
           infl == bp_inflight \ {items}
       IN CASE outcome \in Returns ->
                 /\ ProcessorReturned(k, items, bp_pending, bp_timers, infl, outcome)
                 /\ UNCHANGED bp_stats
            [] outcome = "raise" ->
                 /\ ProcessorRaised(k, items, bp_pending, bp_timers, infl)
                 /\ bp_stats' = [bp_stats EXCEPT !.total_failures = @ + Len(items)]
    /\ bp_lock' = FALSE
    /\ UNCHANGED <<bp_sched, bp_calls, bp_cfg, bp_scen, bp_shut, bp_obs, notBP>>

\* Time passes: the clock advances by one base wait.
BPTick ==
    /\ bp_time.on
    /\ bp_time.now < MaxClock * BaseWait
    /\ bp_time' = [bp_time EXCEPT !.now = @ + BaseWait]
    /\ UNCHANGED <<bp_pending, bp_timers, bp_sched, bp_inflight, bp_item,
                   bp_resolved, bp_calls, bp_batch_sizes, bp_wait_times, bp_success,
                   bp_stats, bp_cfg, bp_scen, bp_lock, bp_shut, bp_obs, notBP>>

Outcomes == {"return", "raise", "suspend"}

\* ---- shutdown.  The task that calls it runs flush_all itself, one
\* _flush_batch after the other, and nothing else runs until a processor it
\* awaits suspends; the state it works on is carried in a record.

\* The state of the BatchProcessor, as a record of the variables.
BPState ==
    [pending |-> bp_pending, timers |-> bp_timers, item |-> bp_item,
     resolved |-> bp_resolved, calls |-> bp_calls, batch_sizes |-> bp_batch_sizes,
     wait_times |-> bp_wait_times, success |-> bp_success, stats |-> bp_stats]

\* shutdown, lines 304-306: every timer is cancelled and self._timers cleared.
TimersCleared(b) == [b EXCEPT !.timers = [k \in Kinds |-> "none"]]

\* _flush_batch, lines 126-156, in state b: the drain, the cancelling of the
\* kind's timer and the handing of the list to the processor.
DrainedIn(b, k) ==
    [b EXCEPT !.pending[k] = <<>>, !.timers[k] = "none",
              !.calls[k] = Append(@, b.pending[k]),
              !.stats.total_batches = @ + 1]

\* _flush_batch, lines 156-179, and _handle_failed_batch in state b: the
\* processor invoked on items returned or raised.
ProcessorEnded(b, k, items, outcome) ==
    LET in_batch == SeqToSet(items)
        retry == SelectSeq(items, LAMBDA i : b.item[i].retry < bp_cfg.max_retries)
        rate == UpdateSuccessRate(b.success[k], 1)
    IN IF outcome \in Returns
       THEN [b EXCEPT
               !.item = [i \in ItemIds |->
                           IF i \in in_batch THEN [b.item[i] EXCEPT !.state = "ok"]
                           ELSE b.item[i]],
               !.resolved = [i \in ItemIds |->
                               IF i \in in_batch THEN b.resolved[i] + 1
                               ELSE b.resolved[i]],
               !.success[k] = IF bp_cfg.adaptive THEN rate ELSE @,
               !.batch_sizes[k] = IF bp_cfg.adaptive THEN AdaptBatchSize(@, rate)
                                  ELSE @,
               !.wait_times[k] = IF bp_cfg.adaptive THEN AdaptWaitTime(outcome)
                                 ELSE @]
       ELSE [b EXCEPT
               !.stats.total_failures = @ + Len(items),
               !.success[k] = IF bp_cfg.adaptive THEN UpdateSuccessRate(@, 0) ELSE @,
               !.item = [i \in ItemIds |->
                           IF i \notin in_batch THEN b.item[i]
                           ELSE IF i \in SeqToSet(retry)
                                THEN [b.item[i] EXCEPT !.retry = @ + 1]
                                ELSE [b.item[i] EXCEPT !.state = "failed"]],
               !.resolved = [i \in ItemIds |->
                               IF i \in in_batch /\ i \notin SeqToSet(retry)
                               THEN b.resolved[i] + 1 ELSE b.resolved[i]],
               !.pending[k] = @ \o retry,
               !.timers[k] = IF retry # <<>> /\ @ = "none" THEN "armed" ELSE @]

\* flush_all, lines 280-283, from state b over the kinds of todo, with the
\* outcome outs[n] of the n-th processor invocation it may make: up to the
\* first invocation that suspends ("running", with its batch and the kinds
\* left) or to the end ("returned").  A kind whose queue another task has
\* drained meanwhile is passed over (line 127).
RECURSIVE FlushAll(_, _, _)
FlushAll(b, todo, outs) ==
    IF todo = <<>>
    THEN [b |-> b, pc |-> "returned", batch |-> <<>>, todo |-> <<>>]
    ELSE IF b.pending[Head(todo)] = <<>>
         THEN FlushAll(b, Tail(todo), Tail(outs))
         ELSE IF Head(outs) = "suspend"
              THEN [b |-> DrainedIn(b, Head(todo)), pc |-> "running",
                    batch |-> b.pending[Head(todo)], todo |-> Tail(todo)]
              ELSE FlushAll(ProcessorEnded(DrainedIn(b, Head(todo)), Head(todo),
                                           b.pending[Head(todo)], Head(outs)),
                            Tail(todo), Tail(outs))

\* list(self.pending.keys()), line 280: the kinds that have a queue, in the
\* order in which the queues were made; the model takes every order.
PendingKeys ==
    {o \in UNION {[1..n -> Kinds] : n \in 0..Cardinality(Kinds)} :
        /\ SeqToSet(o) = {k \in Kinds : bp_pending[k] # <<>>}
        /\ Len(o) = Cardinality(SeqToSet(o))}

\* The task of shutdown goes on from r, a result of FlushAll.
ShutdownAt(r, queued) ==
    /\ bp_pending' = r.b.pending
    /\ bp_timers' = r.b.timers
    /\ bp_item' = r.b.item
    /\ bp_resolved' = r.b.resolved
    /\ bp_calls' = r.b.calls
    /\ bp_batch_sizes' = r.b.batch_sizes
    /\ bp_wait_times' = r.b.wait_times
    /\ bp_success' = r.b.success
    /\ bp_stats' = r.b.stats
    /\ bp_shut' = [pc |-> r.pc, batch |-> r.batch, todo |-> r.todo,
                   queued |-> queued]
    /\ bp_lock' = IF r.pc = "running"
                  THEN LockedAfterDrain(bp_item[r.batch[1]].kind) ELSE FALSE
    /\ bp_scen' = [k \in Kinds |-> NoScen]
    /\ UNCHANGED <<bp_sched, bp_inflight, bp_cfg, bp_obs, bp_time, notBP>>

\* The items in a queue, each with the number of invocations it was handed to.
QueuedNow ==
    {<<i, Handed(i)>> : i \in UNION {SeqToSet(bp_pending[k]) : k \in Kinds}}

\* A task calls shutdown (lines 301-311): up to the first processor invocation
\* that suspends, or to the return.  An observed call records the items that
\* are in a queue when it is made.
Shutdown(order, outs, observed) ==
    /\ bp_shut.pc = "idle"
    /\ ~bp_lock
    /\ order \in PendingKeys
    /\ outs \in [1..Len(order) -> Outcomes]
    /\ \E r \in {FlushAll(TimersCleared(BPState), order, outs)} :
          ShutdownAt(r, IF observed THEN QueuedNow ELSE {})

\* The processor the task of shutdown awaits returns or raises, and the task
\* goes on with the rest of flush_all.
ShutdownResume(outcome, outs) ==
    /\ bp_shut.pc = "running"
    /\ outcome \in {"return", "raise"}
    /\ outs \in [1..Len(bp_shut.todo) -> Outcomes]
    /\ \E r \in {FlushAll(ProcessorEnded(BPState, bp_item[bp_shut.batch[1]].kind,
                                          bp_shut.batch, outcome),
                           bp_shut.todo, outs)} :
          ShutdownAt(r, bp_shut.queued)

-----------------------------------------------------------------------------
(* RateLimiter *)

\* Token levels are floats; the model counts them in units of 1/TicksPerToken
\* token, the amount refilled in one tick, so that refills and waits are exact.
\* time.time() is taken to be monotonic.
Min(a, b) == IF a < b THEN a ELSE b
Max(a, b) == IF a > b THEN a ELSE b

\* acquire / try_acquire, lines 47-48 and 82-83: the lazy refill.
RefillUncapped(tokens, last, now, burst) == tokens + (now - last)

Refill(tokens, last, now, burst) ==
    Min(burst * TicksPerToken, tokens + (now - last))

\* The level that n tokens need (lines 54 and 89).
Need(n) == n * TicksPerToken

\* Lines 60-61 with the whole request as the deficit.
WaitTimeOfRequest(level, n) == Need(n)

\* Lines 60-61: deficit / rate, in ticks, for a level below Need(n).
WaitTime(level, n) == Need(n) - level

\* The locked part of acquire (op = "acquire", lines 44-64) or of try_acquire
\* (lines 79-94) on a limiter lim = [tokens, last] of the given burst size, up to
\* its return or to the sleep of line 64: the new level and last_update, what
\* happens ("ok", "sleep" or "rejected") and the wait.
LimiterStep(lim, burst, now, op, n) ==
    LET level == Refill(lim.tokens, lim.last, now, burst)
    IN IF level >= Need(n)
       THEN [tokens |-> level - Need(n), last |-> now, outcome |-> "ok", wait |-> 0]
       ELSE [tokens |-> level, last |-> now,
             outcome |-> IF op = "acquire" THEN "sleep" ELSE "rejected",
             wait |-> IF op = "acquire" THEN WaitTime(level, n) ELSE 0]

Callers == {1, 2}
RLOps == {"acquire", "try_acquire"}
NoCall == [pc |-> "idle", op |-> "none", n |-> 0, wake |-> 0, ret |-> -1]

\* The observer of a burst.  From a full bucket, acquire(1) calls that enter at
\* one instant are counted ("drain"; "broken" if one of them has to sleep)
\* until burst_size of them have returned ("drained"); the acquire that enters
\* next and has to sleep is followed ("next") with the missing level at its
\* entry, in ticks of refill, and the time of its entry, up to its return
\* ("done") with the time it slept and the wait it returned.  Any other call
\* ends the observation.
NoRLRun ==
    [phase |-> "none", at |-> 0, done |-> 0, deficit |-> 0, from |-> 0,
     slept |-> 0, ret |-> 0]

\* The observer after a call of op(n) entered the locked part at the given
\* refilled level and went on as outcome says.
RLRunEntered(run, op, n, level, outcome, now) ==
    IF run.phase = "drained"
    THEN IF op = "acquire" /\ outcome = "sleep"
         THEN [run EXCEPT !.phase = "next", !.deficit = Need(n) - level, !.from = now]
         ELSE NoRLRun
    ELSE IF op = "acquire" /\ n = 1
         THEN IF run.phase = "drain" /\ run.at = now
              THEN [run EXCEPT
                      !.phase = IF outcome # "ok" THEN "broken"
                                ELSE IF run.done + 1 = BurstSize THEN "drained"
                                     ELSE "drain",
                      !.done = @ + 1]
              ELSE IF level = BurstSize * TicksPerToken
                   THEN [NoRLRun EXCEPT
                           !.phase = IF BurstSize = 1 THEN "drained" ELSE "drain",
                           !.at = now, !.done = 1]
                   ELSE NoRLRun
         ELSE NoRLRun

InitRL ==
    /\ rl = [tokens |-> BurstSize * TicksPerToken, last |-> 0, lock |-> 0,
             waiters |-> <<>>, now |-> 0, rejected |-> 0]
    /\ rl_task = [t \in Callers |-> NoCall]
    /\ rl_run = NoRLRun

\* Caller t holds the lock and runs the locked part of op(n).  acquire returns
\* its wait (0 here), try_acquire returns True (1) or False (0); an acquire that
\* has to wait sleeps with the lock held.
RLEntered(t, op, n, waiters) ==
    LET st == LimiterStep(rl, BurstSize, rl.now, op, n)
    IN /\ UNCHANGED notRL
       /\ rl' = [rl EXCEPT !.tokens = st.tokens, !.last = st.last,
                           !.waiters = waiters,
                           !.lock = IF st.outcome = "sleep" THEN t ELSE 0,
                           !.rejected = IF st.outcome = "rejected" THEN @ + 1 ELSE @]
       /\ rl_task' = [rl_task EXCEPT ![t] =
             CASE st.outcome = "ok" ->
                     [NoCall EXCEPT !.op = op, !.n = n,
                                    !.ret = IF op = "acquire" THEN 0 ELSE 1]
               [] st.outcome = "rejected" ->
                     [NoCall EXCEPT !.op = op, !.n = n, !.ret = 0]
               [] st.outcome = "sleep" ->
                     [pc |-> "sleeping", op |-> op, n |-> n,
                      wake |-> rl.now + st.wait, ret |-> -1]]
       /\ rl_run' = RLRunEntered(rl_run, op, n,
                                 Refill(rl.tokens, rl.last, rl.now, BurstSize),
                                 st.outcome, rl.now)

\* A caller calls acquire(n) or try_acquire(n) (async with self._lock, lines 43
\* and 78): it enters when the lock is free and nobody waits for it, and waits
\* in line otherwise.
RLCall(t, op, n) ==
    /\ rl_task[t].pc = "idle"
    /\ rl.rejected < MaxRejected
    /\ IF rl.lock = 0 /\ rl.waiters = <<>>
       THEN RLEntered(t, op, n, rl.waiters)
       ELSE /\ rl' = [rl EXCEPT !.waiters = Append(@, t)]
            /\ rl_task' = [rl_task EXCEPT ![t] =
                             [NoCall EXCEPT !.pc = "locking", !.op = op, !.n = n]]
            /\ UNCHANGED <<rl_run, notRL>>

\* The lock is free and passes to the first caller waiting for it.
RLGrant(t) ==
    /\ rl_task[t].pc = "locking"
    /\ rl.lock = 0
    /\ rl.waiters # <<>> /\ Head(rl.waiters) = t
    /\ RLEntered(t, rl_task[t].op, rl_task[t].n, Tail(rl.waiters))

\* The sleep of line 64 ends, at the wait or later (lines 66-71): the level is
\* set to 0, the lock is released and acquire returns the wait.
RLWake(t) ==
    /\ rl_task[t].pc = "sleeping"
    /\ rl.now >= rl_task[t].wake
    /\ rl' = [rl EXCEPT !.tokens = 0, !.last = rl.now, !.lock = 0]
    /\ rl_task' = [rl_task EXCEPT ![t] =
                     [NoCall EXCEPT !.op = rl_task[t].op, !.n = rl_task[t].n,
                                    !.ret = rl_task[t].wake - rl.last]]
    /\ rl_run' = IF rl_run.phase = "next"
                 THEN [rl_run EXCEPT !.phase = "done",
                                     !.slept = rl.now - rl_run.from,
                                     !.ret = rl_task[t].wake - rl.last]
                 ELSE rl_run
    /\ UNCHANGED notRL

\* Time passes.
RLTick ==
    /\ rl.now < MaxTime
    /\ rl' = [rl EXCEPT !.now = @ + 1]
    /\ rl_run' = IF rl_run.phase = "drain" THEN NoRLRun ELSE rl_run
    /\ UNCHANGED <<rl_task, notRL>>

-----------------------------------------------------------------------------
(* ResourceManager *)

\* The classes the callers use: "default" is configured (lines 153-156), "other"
\* is not and gets a semaphore of the default size at its first acquire.
Classes == {"default", "other"}

\* self.rate_limiters has one limiter per configured class.
Limiters == {"default"}

\* Lines 231-233: rate_limiters.get(resource_type, rate_limiters["default"]).
LimiterOf(c) == IF c \in Limiters THEN c ELSE "default"

\* The max_concurrent the semaphore of class c is created with (lines 166, 213-214).
MaxConcurrentOf(c) == DefaultConcurrent

ZeroNet == [c \in Classes |-> 0]

\* A caller at rest that holds nothing.  While a call runs, net_sem and
\* net_active are what the call has added so far to each semaphore's value and
\* to each class's active count; a call that returned False keeps them, with
\* the number of units it had acquired when it failed (rolled).
IdleTask ==
    [pc |-> "idle", op |-> "none", wait |-> TRUE, plan |-> <<>>, got |-> <<>>,
     wake |-> 0, ret |-> -1, rolled |-> 0, held |-> ZeroNet, net_sem |-> ZeroNet,
     net_active |-> ZeroNet, since |-> 0]

\* No sequence of calls is being followed.
NoRun == [c |-> "none", log |-> <<>>]

\* ResourceContext.__init__ (lines 367-373) for the default count of 1, and the
\* class the object is made for.
ContextCount == 1
ContextClass == "default"

\* The one ResourceContext object followed: the caller inside its `async with`
\* (0: none), self.acquired, and the cycles it has been through.
NoContext == [inside |-> 0, acquired |-> 0, cycles |-> 0]

\* The entries of self._usage_stats other than "active" (lines 130-137).
ZeroUsage == [total_acquired |-> 0, total_wait_time |-> 0, max_concurrent |-> 0]

\* The manager after __init__.  configured is the max_concurrent that
\* configure_resource gave a class's semaphore (0: it never did), configures the
\* number of its calls.  tracked: the model follows total_acquired,
\* total_wait_time and max_concurrent of the usage statistics and the time each
\* caller has spent in its acquire (since), up to MaxWaited ticks of the clock
\* (ticks); where it does not, they stay 0.
RMAtRest(tracked) ==
    [sem |-> [c \in Classes |-> IF c = "default" THEN DefaultConcurrent ELSE -1],
     active |-> [c \in Classes |-> 0],
     lim |-> [l \in Limiters |->
                [level |-> BurstSize * TicksPerToken,
                 lock |-> 0, waiters |-> <<>>]],
     unmatched |-> 0,
     usage |-> [c \in Classes |-> ZeroUsage],
     ticks |-> 0,
     configured |-> [c \in Classes |-> 0],
     configures |-> 0,
     tracked |-> tracked,
     ctx |-> NoContext]

\* __init__ and _initialize_resources (lines 122-177).  sem is each semaphore's
\* value, -1 for a class that has no semaphore yet.  A limiter's level is the
\* token count line 48 computes from tokens, last_update and the present time:
\* the manager keeps no other trace of the clock.
InitRM ==
    /\ rm = RMAtRest(FALSE)
    /\ rm_task = [t \in Callers |-> IdleTask]
    /\ rm_run = NoRun

\* The same, with the usage statistics and the waiting times followed.
InitRMTracked ==
    /\ rm = RMAtRest(TRUE)
    /\ rm_task = [t \in Callers |-> IdleTask]
    /\ rm_run = NoRun

\* Lines 240-242 after an acquire of class c that took `waited`: m.active[c]
\* is already the count line 239 leaves.
UsageCounted(m, c, waited) ==
    IF ~m.tracked THEN m
    ELSE [m EXCEPT !.usage[c] =
            [total_acquired |-> @.total_acquired + 1,
             total_wait_time |-> @.total_wait_time + waited,
             max_concurrent |-> Max(@.max_concurrent, m.active[c])]]

\* Semaphore.locked(): the value is 0, or, from Python 3.11 on (strict), some
\* caller is waiting for the semaphore.
SemLocked(m, tasks, t, c, strict) ==
    \/ m.sem[c] = 0
    \/ strict /\ \E u \in Callers \ {t} :
                    tasks[u].pc = "semwait" /\ Head(tasks[u].plan) = c

\* release, lines 253-264, without the semaphore's release of line 256.
ReleasedStatsOnly(m, c) ==
    IF m.sem[c] = -1 THEN m
    ELSE [m EXCEPT !.active[c] = Max(0, @ - 1)]

\* release, lines 253-264, on the manager state m.
Released(m, c) ==
    IF m.sem[c] = -1 THEN m
    ELSE [m EXCEPT !.sem[c] = @ + 1, !.active[c] = Max(0, @ - 1)]

\* acquire_multiple, lines 288-289, leaving the last acquired unit unreleased.
RECURSIVE RolledBackButLast(_, _, _)
RolledBackButLast(m, k, got) ==
    IF Len(got) <= 1 THEN [m |-> m, k |-> k]
    ELSE LET c == Head(got)
             m1 == Released(m, c)
         IN RolledBackButLast(m1,
                [k EXCEPT !.net_sem[c] = @ + (m1.sem[c] - m.sem[c]),
                          !.net_active[c] = @ + (m1.active[c] - m.active[c])],
                Tail(got))

\* acquire_multiple, lines 288-289: release every unit acquired in this call.
RECURSIVE RolledBack(_, _, _)
RolledBack(m, k, got) ==
    IF got = <<>> THEN [m |-> m, k |-> k]
    ELSE LET c == Head(got)
             m1 == Released(m, c)
         IN RolledBack(m1,
                [k EXCEPT !.net_sem[c] = @ + (m1.sem[c] - m.sem[c]),
                          !.net_active[c] = @ + (m1.active[c] - m.active[c])],
                Tail(got))

\* The number of units of class c in a list of acquired units.
Count(got, c) == Cardinality({n \in 1..Len(got) : got[n] = c})

\* The call returns True: the caller now holds what it acquired.
Succeeded(k) ==
    [IdleTask EXCEPT !.ret = 1,
                     !.held = [c \in Classes |-> k.held[c] + Count(k.got, c)]]

\* The call returns False after the statistics of lines 238-242 were updated
\* for the unit it did not get.
FailedAfterCounting(m, k) ==
    LET c == Head(k.plan)
        r == RolledBack(UsageCounted([m EXCEPT !.active[c] = @ + 1], c, k.since),
                        k, k.got)
    IN [m |-> r.m,
        k |-> [IdleTask EXCEPT !.ret = 0, !.op = k.op, !.rolled = Len(k.got),
                               !.held = k.held, !.net_sem = r.k.net_sem,
                               !.net_active = r.k.net_active]]

\* The call returns False.  acquire_multiple first releases what this call
\* acquired (lines 286-290); a single acquire has acquired nothing (line 251).
Failed(m, k) ==
    LET r == RolledBack(m, k, k.got)
    IN [m |-> r.m,
        k |-> [IdleTask EXCEPT !.ret = 0, !.op = k.op, !.rolled = Len(k.got),
                               !.held = k.held, !.net_sem = r.k.net_sem,
                               !.net_active = r.k.net_active]]

\* A call runs from one suspension point to the next.  The units still to
\* acquire are k.plan; each goes through the semaphore (lines 211-227), the rate
\* limiter (line 235) and the statistics (lines 238-242).
RECURSIVE RunUnits(_, _, _, _, _)
RECURSIVE AfterSemaphore(_, _, _, _, _)
RECURSIVE AfterLock(_, _, _, _, _)
RECURSIVE AfterLimiter(_, _, _, _, _)

\* Lines 211-227 for the next unit, or the return of True when none is left.
RunUnits(m, tasks, k, t, strict) ==
    IF k.plan = <<>> THEN [m |-> m, k |-> Succeeded(k)]
    ELSE LET c == Head(k.plan)
             m1 == IF m.sem[c] = -1
                   THEN [m EXCEPT !.sem[c] = DefaultConcurrent] ELSE m
             k1 == [k EXCEPT !.since = 0]
         IN IF SemLocked(m1, tasks, t, c, strict)
            THEN IF k.wait
                 THEN [m |-> m1, k |-> [k1 EXCEPT !.pc = "semwait"]]
                 ELSE Failed(m1, k1)
            ELSE AfterSemaphore(m1, tasks, k1, t, strict)

\* The semaphore has a free slot: take it, then rate_limiter.acquire(), line 235:
\* async with self._lock (line 43).
AfterSemaphore(m, tasks, k, t, strict) ==
    LET c == Head(k.plan)
        l == LimiterOf(c)
        m1 == [m EXCEPT !.sem[c] = @ - 1]
        k1 == [k EXCEPT !.net_sem[c] = @ - 1]
    IN IF m1.lim[l].lock # 0 \/ m1.lim[l].waiters # <<>>
       THEN [m |-> [m1 EXCEPT !.lim[l].waiters = Append(@, t)],
             k |-> [k1 EXCEPT !.pc = "rlwait"]]
       ELSE AfterLock(m1, tasks, k1, t, strict)

\* RateLimiter.acquire(1) with the lock held, lines 44-64.  k.wake is what is
\* left of the sleep of line 64.
AfterLock(m, tasks, k, t, strict) ==
    LET l == LimiterOf(Head(k.plan))
        st == LimiterStep([tokens |-> m.lim[l].level, last |-> 0], BurstSize, 0,
                          "acquire", 1)
    IN IF st.outcome = "ok"
       THEN AfterLimiter([m EXCEPT !.lim[l].level = st.tokens, !.lim[l].lock = 0],
                         tasks, k, t, strict)
       ELSE [m |-> [m EXCEPT !.lim[l].level = st.tokens, !.lim[l].lock = t],
             k |-> [k EXCEPT !.pc = "rlsleep", !.wake = st.wait]]

\* The limiter returned: the statistics of lines 238-242 and the return of True
\* (line 251); acquire_multiple goes on with its next unit (lines 282-285).
AfterLimiter(m, tasks, k, t, strict) ==
    LET c == Head(k.plan)
    IN RunUnits(UsageCounted([m EXCEPT !.active[c] = @ + 1,
                                       !.ctx.acquired =
                                           IF k.op = "enter" THEN @ + 1 ELSE @],
                             c, k.since), tasks,
                [k EXCEPT !.net_active[c] = @ + 1, !.got = Append(@, c),
                          !.plan = Tail(@)],
                t, strict)

\* The requests of acquire_multiple: the units of the resources dict, in the
\* order the loops of lines 282-283 take them.
Requests ==
    {<<"default", "other">>, <<"default", "default", "default">>}

\* No caller is inside a call.
AllIdle == \A t \in Callers : rm_task[t].pc = "idle"

\* No caller holds a slot of class c.
NoneHeld(c) == \A t \in Callers : rm_task[t].held[c] = 0

\* The result of the call of caller record k, once it has returned.
ResultOf(k) == IF k.ret = 1 THEN "admit" ELSE "reject"

\* The sequence of calls being followed, after caller t calls acquire(c, wait)
\* and its record becomes k: a sequence starts with a non-waiting acquire of a
\* class of which no slot is held, goes on with non-waiting acquires of that
\* class until one more than its max_concurrent have been made, then one
\* release, then one acquire; the calls come one after the other.
RunAfterAcquire(c, wait, k) ==
    LET follows ==
            IF rm_run.c = "none"
            THEN ~wait /\ AllIdle /\ NoneHeld(c)
            ELSE /\ rm_run.c = c /\ AllIdle
                 /\ \/ ~wait /\ Len(rm_run.log) <= MaxConcurrentOf(c)
                             /\ \A n \in 1..Len(rm_run.log) : rm_run.log[n] # "release"
                    \/ Len(rm_run.log) = MaxConcurrentOf(c) + 2
        log == IF rm_run.c = "none" THEN <<>> ELSE rm_run.log
    IN IF ~follows THEN NoRun
       ELSE [c |-> c,
             log |-> IF k.pc = "idle" THEN Append(log, ResultOf(k)) ELSE log]

\* The sequence of calls being followed, after a suspended call of caller t ran
\* on and its record became k.
RunAfterResume(k) ==
    IF rm_run.c = "none" THEN NoRun
    ELSE IF k.pc = "idle"
         THEN [rm_run EXCEPT !.log = Append(@, ResultOf(k))]
         ELSE rm_run

\* The sequence of calls being followed, after release(c).
RunAfterRelease(c) ==
    IF rm_run.c = c /\ AllIdle /\ Len(rm_run.log) = MaxConcurrentOf(c) + 1
    THEN [rm_run EXCEPT !.log = Append(@, "release")]
    ELSE NoRun

\* What semaphore.locked() (line 225) can answer while the semaphore's value is
\* positive: False, and under Python 3.11 or later True when a caller waits for
\* the semaphore.  A waiting call does not ask.
LockedChoices(wait) ==
    IF ~wait /\ \E u \in Callers : rm_task[u].pc = "semwait"
    THEN BOOLEAN ELSE {FALSE}

\* The acquires counted so far, over all classes.
TotalAcquired(m) == m.usage["default"].total_acquired + m.usage["other"].total_acquired

\* A caller calls acquire(c, wait) (op = "acquire", units = <<c>>) or
\* acquire_multiple(units, wait) (op = "multi").
RMCall(t, op, units, wait, strict) ==
    /\ rm_task[t].pc = "idle"
    /\ rm.tracked => TotalAcquired(rm) < MaxAcquired
    /\ strict \in LockedChoices(wait)
    /\ \E r \in {RunUnits(rm, rm_task,
                           [IdleTask EXCEPT !.pc = "run", !.op = op, !.wait = wait,
                                            !.plan = units,
                                            !.held = rm_task[t].held],
                           t, strict)} :
          /\ rm' = r.m
          /\ rm_task' = [rm_task EXCEPT ![t] = r.k]
          /\ rm_run' = IF op = "acquire"
                       THEN RunAfterAcquire(units[1], wait, r.k) ELSE NoRun
    /\ UNCHANGED notRM

\* A caller blocked in semaphore.acquire() (line 222) gets a slot.
RMSemGrant(t, strict) ==
    /\ rm_task[t].pc = "semwait"
    /\ rm.sem[Head(rm_task[t].plan)] > 0
    /\ strict \in LockedChoices(rm_task[t].wait)
    /\ \E r \in {AfterSemaphore(rm, rm_task, [rm_task[t] EXCEPT !.pc = "run"],
                                 t, strict)} :
          /\ rm' = r.m
          /\ rm_task' = [rm_task EXCEPT ![t] = r.k]
    /\ rm_run' = NoRun
    /\ UNCHANGED notRM

\* The limiter's lock is free and passes to the first caller waiting for it.
RMLockGrant(t, strict) ==
    /\ rm_task[t].pc = "rlwait"
    /\ strict \in LockedChoices(rm_task[t].wait)
    /\ LET l == LimiterOf(Head(rm_task[t].plan))
       IN /\ rm.lim[l].lock = 0
          /\ rm.lim[l].waiters # <<>>
          /\ Head(rm.lim[l].waiters) = t
          /\ \E r \in {AfterLock([rm EXCEPT !.lim[l].waiters = Tail(@)], rm_task,
                                  [rm_task[t] EXCEPT !.pc = "run"], t, strict)} :
                /\ rm' = r.m
                /\ rm_task' = [rm_task EXCEPT ![t] = r.k]
    /\ rm_run' = NoRun
    /\ UNCHANGED notRM

\* The sleep in RateLimiter.acquire ends (lines 64-71).
RMWake(t, strict) ==
    /\ rm_task[t].pc = "rlsleep"
    /\ rm_task[t].wake = 0
    /\ strict \in LockedChoices(rm_task[t].wait)
    /\ \E r \in {AfterLimiter([rm EXCEPT
                                  !.lim[LimiterOf(Head(rm_task[t].plan))] =
                                      [@ EXCEPT !.level = 0, !.lock = 0]],
                               rm_task, [rm_task[t] EXCEPT !.pc = "run"],
                               t, strict)} :
          /\ rm' = r.m
          /\ rm_task' = [rm_task EXCEPT ![t] = r.k]
          /\ rm_run' = RunAfterResume(r.k)
    /\ UNCHANGED notRM

\* The task of a caller suspended in rate_limiter.acquire() (line 235) is
\* cancelled, while it waits for the limiter's lock or sleeps with it (lines 43
\* and 64).  CancelledError leaves the `async with` block, which frees the lock,
\* and goes up through acquire, where nothing catches it, and through
\* acquire_multiple, whose handler at line 294 is for Exception only: neither
\* the semaphore nor the statistics are touched again.
RMCancel(t) ==
    /\ rm_task[t].pc \in {"rlwait", "rlsleep"}
    /\ LET l == LimiterOf(Head(rm_task[t].plan))
       IN rm' = [rm EXCEPT
                   !.lim[l].lock = IF @ = t THEN 0 ELSE @,
                   !.lim[l].waiters = SelectSeq(@, LAMBDA u : u # t)]
    /\ rm_task' = [rm_task EXCEPT
                      ![t] = [IdleTask EXCEPT !.ret = 0, !.op = rm_task[t].op,
                                              !.held = rm_task[t].held,
                                              !.net_sem = rm_task[t].net_sem,
                                              !.net_active = rm_task[t].net_active]]
    /\ rm_run' = NoRun
    /\ UNCHANGED notRM

\* __aenter__ (lines 375-388): one acquire per unit of count, each counted in
\* self.acquired when it returns True (line 379, in AfterLimiter).  acquire
\* with wait=True never returns False.
ContextEnter(t) ==
    /\ rm_task[t].pc = "idle"
    /\ rm.ctx.inside = 0
    /\ rm.ctx.cycles < MaxCycles
    /\ \E r \in {RunUnits(rm, rm_task,
                           [IdleTask EXCEPT !.pc = "run", !.op = "enter",
                                            !.plan = [n \in 1..ContextCount |->
                                                        ContextClass],
                                            !.held = rm_task[t].held],
                           t, FALSE)} :
          /\ rm' = [r.m EXCEPT !.ctx.inside = t]
          /\ rm_task' = [rm_task EXCEPT ![t] = r.k]
    /\ rm_run' = NoRun
    /\ UNCHANGED notRM

\* release called n times for class c (lines 392-393).
RECURSIVE ReleasedTimes(_, _, _)
ReleasedTimes(m, c, n) ==
    IF n = 0 THEN m ELSE ReleasedTimes(Released(m, c), c, n - 1)

\* __aexit__ (lines 390-393), when the body of the `async with` ends.
ContextExit(t) ==
    /\ rm.ctx.inside = t
    /\ rm_task[t].pc = "idle"
    /\ rm' = [ReleasedTimes(rm, ContextClass, rm.ctx.acquired) EXCEPT
                 !.ctx.inside = 0, !.ctx.cycles = @ + 1]
    /\ rm_task' = [rm_task EXCEPT
                      ![t] = [IdleTask EXCEPT
                                !.held = [rm_task[t].held EXCEPT
                                            ![ContextClass] =
                                                Max(0, @ - rm.ctx.acquired)]]]
    /\ rm_run' = NoRun
    /\ UNCHANGED notRM

\* A caller releases a slot it holds.
RMRelease(t, c) ==
    /\ rm_task[t].pc = "idle"
    /\ rm_task[t].held[c] > 0
    /\ rm' = Released(rm, c)
    /\ rm_task' = [rm_task EXCEPT
                      ![t] = [IdleTask EXCEPT !.held = [rm_task[t].held EXCEPT ![c] = @ - 1]]]
    /\ rm_run' = RunAfterRelease(c)
    /\ UNCHANGED notRM

\* A caller calls release for a class of which it holds no slot (for a class
\* that has no semaphore the call does nothing, line 255).
RMReleaseUnmatched(t, c) ==
    /\ rm_task[t].pc = "idle"
    /\ rm_task[t].held[c] = 0
    /\ rm.sem[c] # -1
    /\ rm.unmatched < MaxUnmatched
    /\ rm' = [Released(rm, c) EXCEPT !.unmatched = @ + 1]
    /\ rm_run' = NoRun
    /\ UNCHANGED <<rm_task, notRM>>

\* The max_concurrent arguments of configure_resource: fewer slots than the
\* default and more.
ConfigurableLimits == {1, DefaultConcurrent + 1}

\* configure_resource(c, max_concurrent = n), lines 179-192, with no rate_limit:
\* the class gets a new semaphore with n free slots.  The callers blocked on the
\* old semaphore stay blocked on it ("semwait_old"): release looks the
\* semaphore up by name (line 256) and so releases into the new one.
RMConfigure(c, n) ==
    /\ rm.configures < MaxConfigures
    /\ rm' = [rm EXCEPT !.sem[c] = n, !.configured[c] = n, !.configures = @ + 1]
    /\ rm_task' = [t \in Callers |->
                     IF rm_task[t].pc = "semwait" /\ Head(rm_task[t].plan) = c
                     THEN [rm_task[t] EXCEPT !.pc = "semwait_old"]
                     ELSE rm_task[t]]
    /\ rm_run' = NoRun
    /\ UNCHANGED notRM

\* self._default_configs.get(resource_type, self._default_configs["default"])
\* ["max_concurrent"], lines 307-309 and 314: both classes get the entry of
\* "default".
DefaultConfigLimit(c) == DefaultConcurrent

\* get_availability, lines 300-316.  strict: Semaphore.locked() also answers
\* True when a caller waits for the semaphore.
GetAvailability(m, tasks, c, strict) ==
    IF m.sem[c] = -1
    THEN [available |-> TRUE, active |-> 0, limit |-> 0,
          utilization |-> [num |-> 0, den |-> 1]]
    ELSE [available |-> ~SemLocked(m, tasks, 0, c, strict),
          active |-> m.active[c],
          limit |-> DefaultConfigLimit(c),
          utilization |-> [num |-> m.active[c], den |-> DefaultConfigLimit(c)]]

\* get_stats(resource_type), lines 320-335, without the limiter's statistics.
GetResourceStats(m, tasks, c, strict) ==
    [usage |-> [active |-> m.active[c],
                total_acquired |-> m.usage[c].total_acquired,
                total_wait_time |-> m.usage[c].total_wait_time,
                max_concurrent |-> m.usage[c].max_concurrent],
     availability |-> GetAvailability(m, tasks, c, strict)]

\* Time passes: every limiter's level rises by what line 48 adds for one tick,
\* and every sleep has one tick less to go.
RMTick ==
    /\ rm.ticks < MaxWaited
    /\ rm' = [rm EXCEPT !.lim = [l \in Limiters |->
                  [@[l] EXCEPT !.level = Refill(@, 0, 1, BurstSize)]],
                        !.ticks = IF rm.tracked THEN @ + 1 ELSE @]
    /\ rm_task' = [t \in Callers |->
                     [rm_task[t] EXCEPT
                        !.wake = Max(0, @ - 1),
                        !.since = IF rm.tracked /\ rm_task[t].pc # "idle"
                                  THEN @ + 1 ELSE @]]
    /\ rm' # rm \/ rm_task' # rm_task
    /\ UNCHANGED <<rm_run, notRM>>

-----------------------------------------------------------------------------
(* CacheManager.  Each call runs to its end before the next one starts. *)

CacheKeys == {"a", "b"}

\* The values callers store: a string, a tuple and None; "lst" is the list a
\* tuple comes back as.
CacheValues == {"s", "tup", "none"}

\* json.dumps(value), lines 138 and 253.
Dumps(v) ==
    CASE v = "s" -> "\"s\""
      [] v \in {"tup", "lst"} -> "[1, 2]"
      [] v = "none" -> "null"

\* json.loads(text), lines 123 and 236.
Loads(text) ==
    CASE text = "\"s\"" -> "s"
      [] text = "[1, 2]" -> "lst"
      [] text = "null" -> "none"

\* The cache's time is counted in ticks of l2_ttl seconds (line 305): the
\* entries of tier 2 live one tick (line 138).
L2Ttl == 1

\* ttl = None (line 364).
NoTtl == -1

\* The ttl arguments of set.
Ttls == {NoTtl} \cup 0..MaxTtl

\* The levels arguments of set and clear.
LevelSets == {{1, 2, 3}, {1}}

\* A key a tier does not hold; a held entry has its serialized value, whether
\* it expires, and the ticks left until it does.
Absent == [text |-> "", expires |-> FALSE, left |-> 0]

ZeroStats == [hits |-> 0, misses |-> 0, evictions |-> 0, promotions |-> 0]

\* No sequence is being followed.  A sequence is a set(key, v) without ttl that
\* wrote all tiers (the backend of tier 2 did not fail), then clear of tier 1
\* only, then get(key); or a set(key, v, ttl=0) to all tiers ("ttl0"), then the
\* passing of time ("ttl0_past"), then get(key) ("ttl0_got"), with the rows
\* tier 3 evicted in that get; or a call that ended with an exception
\* ("raised").
NoCacheRun ==
    [phase |-> "none", key |-> "a", v |-> "none", ret |-> "none", promoted |-> 0,
     in_l1 |-> FALSE, evicted |-> 0]

\* No call of the CacheManager is suspended.  A get is suspended ("read")
\* between the read of a lower tier that found value and the promotion to
\* to_level; a set or a delete is suspended between its writes to tiers 1 and 2
\* and its write to tier 3; raced: a get of the same key was suspended when the
\* write began, or read a lower tier while the write was suspended.  last is
\* the last write that went through a suspension, once it has returned.
NoCacheTasks ==
    [reader |-> [pc |-> "idle", key |-> "a", value |-> "none", to_level |-> 0],
     writer |-> [pc |-> "idle", key |-> "a", value |-> "none", raced |-> FALSE],
     last |-> [pc |-> "idle", key |-> "a", value |-> "none", raced |-> FALSE]]

\* CacheManager.__init__ (lines 301-312) with the tier constructors.  l1 lists
\* the entries of the LRUCache from the least to the most recently used, l1_size
\* is its maxsize; l2_enabled (line 96) is drawn from configs and l2_client is
\* `self._client is not None` (line 101).
InitCache(configs) ==
    /\ cache \in [l1 : {<<>>},
                  l1_size : {L1Size},
                  l2_client : {FALSE},
                  l2 : {[k \in CacheKeys |-> Absent]},
                  l3 : {[k \in CacheKeys |-> Absent]},
                  l2_enabled : configs,
                  stats : {[l1 |-> ZeroStats, l2 |-> ZeroStats, l3 |-> ZeroStats]},
                  ops : {0},
                  tasks : {NoCacheTasks}]
    /\ cache_run = NoCacheRun

\* key in self.cache.
LruHas(l1, key) == \E n \in 1..Len(l1) : l1[n].k = key

\* The value the LRUCache holds for key.
LruValue(l1, key) == l1[CHOOSE n \in 1..Len(l1) : l1[n].k = key].v

\* The LRUCache without key.
LruWithout(l1, key) == SelectSeq(l1, LAMBDA e : e.k # key)

\* LRUCache.get(key) without the move of the key to the most recent end.
LruNotTouched(l1, key) == l1

\* LRUCache.get(key), line 50: a key that is held becomes the most recently used.
LruTouched(l1, key) ==
    IF LruHas(l1, key)
    THEN Append(LruWithout(l1, key), [k |-> key, v |-> LruValue(l1, key)])
    ELSE l1

\* self.cache[key] = value without the eviction of the least recently used.
LruInsertedUnbounded(l1, key, value) ==
    Append(LruWithout(l1, key), [k |-> key, v |-> value])

\* self.cache[key] = value, line 63: a new key first evicts the least recently
\* used entries until there is room; the key becomes the most recently used.
LruInserted(l1, key, value) ==
    IF LruHas(l1, key) \/ Len(l1) < cache.l1_size
    THEN Append(LruWithout(l1, key), [k |-> key, v |-> value])
    ELSE Append(SubSeq(l1, Len(l1) - cache.l1_size + 2, Len(l1)),
                [k |-> key, v |-> value])

\* L1Cache.get, lines 48-55.
L1Get(c, key) ==
    LET value == IF LruHas(c.l1, key) THEN LruValue(c.l1, key) ELSE "none"
    IN [c |-> [c EXCEPT !.l1 = LruTouched(@, key),
                        !.stats.l1.hits = IF value # "none" THEN @ + 1 ELSE @,
                        !.stats.l1.misses = IF value # "none" THEN @ ELSE @ + 1],
        value |-> value]

\* L1Cache.set, lines 57-63.
L1Set(c, key, value) ==
    [c EXCEPT !.l1 = LruInserted(@, key, value),
              !.stats.l1.evictions =
                  IF Len(c.l1) >= c.l1_size /\ ~LruHas(c.l1, key) THEN @ + 1 ELSE @]

\* L2Cache._get_client, lines 103-111, when from_url returns a client.
GotClient(c) == [c EXCEPT !.l2_client = TRUE]

\* L2Cache.get counting a miss when it has no client (line 117).
L2GetMissesWithoutClient(c, key, fail) ==
    IF ~c.l2_enabled
    THEN [c |-> [c EXCEPT !.stats.l2.misses = @ + 1], value |-> "none"]
    ELSE IF fail THEN [c |-> GotClient(c), value |-> "none"]
    ELSE IF c.l2[key] # Absent
         THEN [c |-> [GotClient(c) EXCEPT !.stats.l2.hits = @ + 1],
               value |-> Loads(c.l2[key].text)]
         ELSE [c |-> [GotClient(c) EXCEPT !.stats.l2.misses = @ + 1],
               value |-> "none"]

\* L2Cache.get, lines 113-129; fail: the backend call raises.
L2Get(c, key, fail) ==
    IF ~c.l2_enabled THEN [c |-> c, value |-> "none"]
    ELSE IF fail THEN [c |-> GotClient(c), value |-> "none"]
    ELSE IF c.l2[key] # Absent
         THEN [c |-> [GotClient(c) EXCEPT !.stats.l2.hits = @ + 1],
               value |-> Loads(c.l2[key].text)]
         ELSE [c |-> [GotClient(c) EXCEPT !.stats.l2.misses = @ + 1],
               value |-> "none"]

\* L2Cache.set, lines 131-140: setex with self.ttl.
L2Set(c, key, value, fail) ==
    IF ~c.l2_enabled THEN c
    ELSE IF fail THEN GotClient(c)
    ELSE [GotClient(c) EXCEPT !.l2[key] = [text |-> Dumps(value), expires |-> TRUE,
                                           left |-> L2Ttl]]

\* A row whose expires_at is at or before the present time.
Expired(e) == e # Absent /\ e.expires /\ e.left = 0

\* L3Cache._cleanup_expired deleting nothing.
L3CleanedNothing(c) == c

\* L3Cache._cleanup_expired, lines 274-286.
L3Cleaned(c) ==
    [c EXCEPT !.l3 = [k \in CacheKeys |-> IF Expired(c.l3[k]) THEN Absent ELSE c.l3[k]],
              !.stats.l3.evictions =
                  @ + Cardinality({k \in CacheKeys : Expired(c.l3[k])})]

\* L3Cache.get, lines 216-239.
L3Get(c, key) ==
    LET c1 == L3Cleaned(c)
    IN IF c1.l3[key] # Absent /\ ~Expired(c1.l3[key])
       THEN [c |-> [c1 EXCEPT !.stats.l3.hits = @ + 1],
             value |-> Loads(c1.l3[key].text)]
       ELSE [c |-> [c1 EXCEPT !.stats.l3.misses = @ + 1], value |-> "none"]

\* L3Cache.set, lines 241-256: expires_at is set `if ttl`.
L3Set(c, key, value, ttl) ==
    [c EXCEPT !.l3[key] = [text |-> Dumps(value),
                           expires |-> ttl # NoTtl /\ ttl # 0,
                           left |-> IF ttl # NoTtl /\ ttl # 0 THEN ttl ELSE 0]]

\* CacheManager._promote with the test of line 416 as to_level > 1.
PromotedAboveOne(c, key, value, to_level, fail) ==
    LET c1 == IF to_level > 1
              THEN [L1Set(c, key, value) EXCEPT !.stats.l1.promotions = @ + 1]
              ELSE c
    IN IF to_level >= 2 /\ c1.l2_enabled
       THEN [L2Set(c1, key, value, fail) EXCEPT !.stats.l2.promotions = @ + 1]
       ELSE c1

\* CacheManager._promote, lines 414-422.
Promoted(c, key, value, to_level, fail) ==
    LET c1 == IF to_level >= 1
              THEN [L1Set(c, key, value) EXCEPT !.stats.l1.promotions = @ + 1]
              ELSE c
    IN IF to_level >= 2 /\ c1.l2_enabled
       THEN [L2Set(c1, key, value, fail) EXCEPT !.stats.l2.promotions = @ + 1]
       ELSE c1

\* CacheManager.get, lines 334-358.
Got(c, key, fail_get, fail_set) ==
    LET r1 == L1Get(c, key)
        r2 == L2Get(r1.c, key, fail_get)
        r3 == L3Get(r2.c, key)
    IN IF r1.value # "none" THEN r1
       ELSE IF r2.value # "none"
            THEN [c |-> Promoted(r2.c, key, r2.value, 1, fail_set), value |-> r2.value]
            ELSE IF r3.value # "none"
                 THEN [c |-> Promoted(r3.c, key, r3.value, 2, fail_set),
                       value |-> r3.value]
                 ELSE [c |-> r3.c, value |-> "none"]

\* CacheManager.set, lines 360-387.
SetIn(c, key, value, ttl, levels, fail) ==
    LET c1 == IF 1 \in levels THEN L1Set(c, key, value) ELSE c
        c2 == IF 2 \in levels THEN L2Set(c1, key, value, fail) ELSE c1
    IN IF 3 \in levels THEN L3Set(c2, key, value, ttl) ELSE c2

\* CacheManager.delete, lines 389-393.
Deleted(c, key, fail) ==
    [c EXCEPT !.l1 = LruWithout(@, key),
              !.l2_client = @ \/ c.l2_enabled,
              !.l2[key] = IF c.l2_enabled /\ ~fail THEN Absent ELSE @,
              !.l3[key] = Absent]

\* CacheManager.clear, lines 395-412.
Cleared(c, levels, fail) ==
    [c EXCEPT !.l1 = IF 1 \in levels THEN <<>> ELSE @,
              !.l2_client = @ \/ (2 \in levels /\ c.l2_enabled),
              !.l2 = IF 2 \in levels /\ c.l2_enabled /\ ~fail
                     THEN [k \in CacheKeys |-> Absent] ELSE @,
              !.l3 = IF 3 \in levels THEN [k \in CacheKeys |-> Absent] ELSE @]

\* CacheManager.warm_cache, lines 458-461: one set per item of the dict.
RECURSIVE Warmed(_, _, _)
Warmed(c, items, fail) ==
    IF items = <<>> THEN c
    ELSE Warmed(SetIn(c, Head(items).k, Head(items).v, NoTtl, {1, 2, 3}, fail),
                Tail(items), fail)

\* The dicts passed to warm_cache, as the list of their items.
WarmDicts ==
    {<<[k |-> "a", v |-> "s"], [k |-> "b", v |-> "tup"]>>,
     <<[k |-> "b", v |-> "s"]>>}

\* What the backend of tier 2 can do in a call: fail, when there is a backend.
Failures == IF cache.l2_enabled THEN BOOLEAN ELSE {FALSE}

\* A caller calls get(key).
CacheGet(key, fail_get, fail_set) ==
    /\ cache.ops < MaxOps
    /\ fail_get \in Failures /\ fail_set \in Failures
    /\ \E r \in {Got(cache, key, fail_get, fail_set)} :
          /\ cache' = [r.c EXCEPT !.ops = @ + 1]
          /\ cache_run' =
                IF cache_run.phase = "cleared" /\ cache_run.key = key
                THEN [cache_run EXCEPT
                        !.phase = "got", !.ret = r.value,
                        !.promoted = r.c.stats.l1.promotions - cache.stats.l1.promotions,
                        !.in_l1 = LruHas(r.c.l1, key)]
                ELSE IF cache_run.phase = "ttl0_past" /\ cache_run.key = key
                     THEN [cache_run EXCEPT
                             !.phase = "ttl0_got", !.ret = r.value,
                             !.evicted = r.c.stats.l3.evictions
                                           - cache.stats.l3.evictions]
                     ELSE NoCacheRun
    /\ UNCHANGED notCache

\* A caller calls set(key, value, ttl, levels); a ttl is passed when tier 3 is
\* among the levels, and the backend of tier 2 can fail when tier 2 is.
CacheSet(key, value, ttl, levels, fail) ==
    /\ cache.ops < MaxOps
    /\ fail \in Failures
    /\ 3 \notin levels => ttl = NoTtl
    /\ 2 \notin levels => ~fail
    /\ cache' = [SetIn(cache, key, value, ttl, levels, fail) EXCEPT !.ops = @ + 1]
    /\ cache_run' = IF levels = {1, 2, 3} /\ ttl = NoTtl /\ ~fail
                    THEN [NoCacheRun EXCEPT !.phase = "set", !.key = key, !.v = value]
                    ELSE IF levels = {1, 2, 3} /\ ttl = 0
                         THEN [NoCacheRun EXCEPT !.phase = "ttl0", !.key = key,
                                                 !.v = value]
                         ELSE NoCacheRun
    /\ UNCHANGED notCache

\* A caller calls delete(key).
CacheDelete(key, fail) ==
    /\ cache.ops < MaxOps
    /\ fail \in Failures
    /\ cache' = [Deleted(cache, key, fail) EXCEPT !.ops = @ + 1]
    /\ cache_run' = NoCacheRun
    /\ UNCHANGED notCache

\* A caller calls clear(levels).
CacheClear(levels, fail) ==
    /\ cache.ops < MaxOps
    /\ fail \in Failures
    /\ cache' = [Cleared(cache, levels, fail) EXCEPT !.ops = @ + 1]
    /\ cache_run' = IF levels = {1} /\ cache_run.phase = "set"
                    THEN [cache_run EXCEPT !.phase = "cleared"]
                    ELSE NoCacheRun
    /\ UNCHANGED notCache

\* A caller calls warm_cache(items).
CacheWarm(items, fail) ==
    /\ cache.ops < MaxOps
    /\ fail \in Failures
    /\ cache' = [Warmed(cache, items, fail) EXCEPT !.ops = @ + 1]
    /\ cache_run' = NoCacheRun
    /\ UNCHANGED notCache

\* ---- Calls that overlap.  aiosqlite runs each statement in its own thread and
\* the caller is suspended until it is done, so the calls of other tasks run
\* between a call's access to tier 3 and what it does next.

\* get(key), lines 334-352: up to the return of the lower tier's read.  A hit
\* in tier 1 or a miss everywhere ends the call.
CacheGetRead(key) ==
    /\ cache.ops < MaxOps
    /\ cache.tasks.reader.pc = "idle"
    /\ LET r1 == L1Get(cache, key)
           r2 == L2Get(r1.c, key, FALSE)
           r3 == L3Get(r2.c, key)
           r == IF r1.value # "none" THEN [r1 EXCEPT !.value = "none"]
                ELSE IF r2.value # "none" THEN r2 ELSE r3
           to_level == IF r2.value # "none" THEN 1 ELSE 2
           w == cache.tasks.writer
       IN cache' = [r.c EXCEPT
             !.ops = @ + 1,
             !.tasks.reader =
                 IF r.value = "none" THEN @
                 ELSE [pc |-> "read", key |-> key, value |-> r.value,
                       to_level |-> to_level],
             !.tasks.writer.raced =
                 @ \/ (r.value # "none" /\ w.pc # "idle" /\ w.key = key)]
    /\ cache_run' = NoCacheRun
    /\ UNCHANGED notCache

\* get(key), lines 348 and 355: the suspended get promotes what it read.
CacheGetPromote ==
    /\ cache.tasks.reader.pc = "read"
    /\ LET g == cache.tasks.reader
       IN cache' = [Promoted(cache, g.key, g.value, g.to_level, FALSE) EXCEPT
                      !.tasks.reader = NoCacheTasks.reader]
    /\ cache_run' = NoCacheRun
    /\ UNCHANGED notCache

\* set(key, value), lines 376-387, up to the suspension in L3Cache.set.
CacheSetBegin(key, value) ==
    /\ cache.ops < MaxOps
    /\ cache.tasks.writer.pc = "idle"
    /\ LET g == cache.tasks.reader
       IN cache' = [L2Set(L1Set(cache, key, value), key, value, FALSE) EXCEPT
             !.ops = @ + 1,
             !.tasks.writer = [pc |-> "set", key |-> key, value |-> value,
                               raced |-> g.pc = "read" /\ g.key = key]]
    /\ cache_run' = NoCacheRun
    /\ UNCHANGED notCache

\* delete(key), lines 391-393, up to the suspension in L3Cache.delete.
CacheDeleteBegin(key) ==
    /\ cache.ops < MaxOps
    /\ cache.tasks.writer.pc = "idle"
    /\ LET g == cache.tasks.reader
       IN cache' = [cache EXCEPT
             !.l1 = LruWithout(@, key),
             !.l2_client = @ \/ cache.l2_enabled,
             !.l2[key] = IF cache.l2_enabled THEN Absent ELSE @,
             !.ops = @ + 1,
             !.tasks.writer = [pc |-> "delete", key |-> key, value |-> "none",
                               raced |-> g.pc = "read" /\ g.key = key]]
    /\ cache_run' = NoCacheRun
    /\ UNCHANGED notCache

\* The statement of the suspended set (lines 248-256) or delete (lines 263-264)
\* is done and the call returns.
CacheWriteEnd ==
    /\ cache.tasks.writer.pc # "idle"
    /\ LET w == cache.tasks.writer
           c == IF w.pc = "set" THEN L3Set(cache, w.key, w.value, NoTtl)
                ELSE [cache EXCEPT !.l3[w.key] = Absent]
       IN cache' = [c EXCEPT !.tasks.writer = NoCacheTasks.writer,
                             !.tasks.last = w]
    /\ cache_run' = NoCacheRun
    /\ UNCHANGED notCache

\* The calls of the CacheManager that can reach tier 2.
CacheOps == {"get", "set", "delete", "clear"}

\* A call of the CacheManager reaches tier 2 before any client was made, and
\* redis.from_url raises in _get_client (line 109), which no try encloses:
\* the exception leaves L2Cache.get / set / delete / clear (lines 115, 133,
\* 144, 153) and the CacheManager's call after what the call did to tier 1;
\* tier 3 is not reached.  set and clear are the calls on all levels.
CacheConnectFails(op, key, value) ==
    /\ cache.ops < MaxOps
    /\ cache.l2_enabled /\ ~cache.l2_client
    /\ op # "set" => value = "s"
    /\ op = "clear" => key = "a"
    /\ \E c \in {CASE op = "get" -> L1Get(cache, key).c
                    [] op = "set" -> L1Set(cache, key, value)
                    [] op = "delete" -> [cache EXCEPT !.l1 = LruWithout(@, key)]
                    [] op = "clear" -> [cache EXCEPT !.l1 = <<>>]} :
          cache' = [c EXCEPT !.ops = @ + 1]
    /\ op = "get" => L1Get(cache, key).value = "none"
    /\ cache_run' = [NoCacheRun EXCEPT !.phase = "raised", !.key = key]
    /\ UNCHANGED notCache

\* Time passes: every expiry is one tick nearer; the backend of tier 2 drops
\* the entries whose time is up, tier 3 keeps its rows until the next read.
CacheTick ==
    /\ cache' = [cache EXCEPT
          !.l2 = [k \in CacheKeys |->
                    IF cache.l2[k] = Absent \/ cache.l2[k].left <= 1 THEN Absent
                    ELSE [cache.l2[k] EXCEPT !.left = @ - 1]],
          !.l3 = [k \in CacheKeys |->
                    [cache.l3[k] EXCEPT !.left = Max(0, @ - 1)]]]
    /\ cache_run' = IF cache_run.phase = "ttl0"
                    THEN [cache_run EXCEPT !.phase = "ttl0_past"] ELSE cache_run
    /\ cache' # cache \/ cache_run' # cache_run
    /\ UNCHANGED notCache

\* ---- An L1Cache of its own (lines 41-79), with callers of its get and set.

\* The keys its callers use.
L1Keys == CacheKeys \cup {"c", "d"}

\* The observer of the L1Cache: the last call and its key, the keys held and
\* the eviction count before it; for every key the number of the last call
\* that read it while held or wrote it and of the call that inserted it (0:
\* never); the key of the first call, and whether the calls so far are sets of
\* distinct keys.
NoL1Run ==
    [phase |-> "none", key |-> "a", held |-> {}, evictions |-> 0,
     used |-> [k \in L1Keys |-> 0], written |-> [k \in L1Keys |-> 0],
     first |-> "a", distinct |-> TRUE]

\* The keys the LRUCache holds.
LruKeys(l1) == {l1[n].k : n \in 1..Len(l1)}

\* L1Cache(maxsize) with room for one entry more than the manager's tier 1, so
\* that the least recently used entry is not the only entry.
InitL1Cache ==
    /\ cache = [l1 |-> <<>>, l1_size |-> L1Size + 1, l2_client |-> FALSE,
                l2 |-> [k \in CacheKeys |-> Absent],
                l3 |-> [k \in CacheKeys |-> Absent],
                l2_enabled |-> FALSE,
                stats |-> [l1 |-> ZeroStats, l2 |-> ZeroStats, l3 |-> ZeroStats],
                ops |-> 0, tasks |-> NoCacheTasks]
    /\ cache_run = NoL1Run

\* A caller calls L1Cache.get(key).
L1CacheGet(key) ==
    /\ cache.ops < MaxL1Ops
    /\ cache' = [L1Get(cache, key).c EXCEPT !.ops = @ + 1]
    /\ cache_run' =
          [phase |-> "get", key |-> key, held |-> LruKeys(cache.l1),
           evictions |-> cache.stats.l1.evictions,
           used |-> IF LruHas(cache.l1, key)
                    THEN [cache_run.used EXCEPT ![key] = cache.ops + 1]
                    ELSE cache_run.used,
           written |-> cache_run.written,
           first |-> IF cache.ops = 0 THEN key ELSE cache_run.first,
           distinct |-> FALSE]
    /\ UNCHANGED notCache

\* A caller calls L1Cache.set(key, value).
L1CacheSet(key, value) ==
    /\ cache.ops < MaxL1Ops
    /\ cache' = [L1Set(cache, key, value) EXCEPT !.ops = @ + 1]
    /\ cache_run' =
          [phase |-> "set", key |-> key, held |-> LruKeys(cache.l1),
           evictions |-> cache.stats.l1.evictions,
           used |-> [cache_run.used EXCEPT ![key] = cache.ops + 1],
           written |-> IF LruHas(cache.l1, key) THEN cache_run.written
                       ELSE [cache_run.written EXCEPT ![key] = cache.ops + 1],
           first |-> IF cache.ops = 0 THEN key ELSE cache_run.first,
           distinct |-> cache_run.distinct /\ cache_run.written[key] = 0]
    /\ UNCHANGED notCache

-----------------------------------------------------------------------------
(* Specifications: one per component, the other components at rest *)

\* The BatchProcessor: adds, timers, flush tasks and processor outcomes.
Init == BPAtRest(BPConfigs) /\ InitRL /\ InitRM /\ InitCache({FALSE})

Next ==
    \/ \E k \in Kinds : Add(k)
    \/ \E k \in Kinds, o \in Outcomes : TimerFire(k, o)
    \/ \E k \in Kinds, o \in Outcomes : FlushRun(k, o)
    \/ \E b \in bp_inflight, o \in {"return", "raise"} : ProcFinish(b, o)

Spec == Init /\ [][Next]_vars

\* One RateLimiter and its concurrent callers.
InitRateLimiter ==
    BPAtRest({[max_retries |-> 0, adaptive |-> TRUE]}) /\ InitRL /\ InitRM /\ InitCache({FALSE})

NextRateLimiter ==
    \/ \E t \in Callers, op \in RLOps, n \in 1..(BurstSize + 1) : RLCall(t, op, n)
    \/ \E t \in Callers : RLGrant(t)
    \/ \E t \in Callers : RLWake(t)
    \/ RLTick

\* The BatchProcessor with callers that also name kinds without a processor;
\* max_retries is 1, adaptive is off.
InitAddErrors ==
    /\ BPAtRest([max_retries : {1}, adaptive : {FALSE}])
    /\ InitRL /\ InitRM /\ InitCache({FALSE})

NextAddErrors ==
    \/ \E k \in Kinds : Add(k)
    \/ \E k \in Unregistered : AddUnregistered(k)
    \/ \E k \in Kinds, o \in Outcomes : TimerFire(k, o)
    \/ \E k \in Kinds, o \in Outcomes : FlushRun(k, o)
    \/ \E b \in bp_inflight, o \in {"return", "raise"} : ProcFinish(b, o)

SpecAddErrors == InitAddErrors /\ [][NextAddErrors]_vars

\* The BatchProcessor with a task that calls shutdown; max_retries is 1 (a
\* failed item is queued once more, then fails), adaptive is off.
InitShutdown ==
    /\ BPAtRest([max_retries : {1}, adaptive : {FALSE}])
    /\ InitRL /\ InitRM /\ InitCache({FALSE})

NextShutdown ==
    \/ \E k \in Kinds : Add(k)
    \/ \E k \in Kinds, o \in Outcomes : TimerFire(k, o)
    \/ \E k \in Kinds, o \in Outcomes : FlushRun(k, o)
    \/ \E b \in bp_inflight, o \in {"return", "raise"} : ProcFinish(b, o)
    \/ \E order \in PendingKeys :
          \E outs \in [1..Len(order) -> Outcomes] : Shutdown(order, outs, FALSE)
    \/ \E o \in {"return", "raise"},
          outs \in [1..Len(bp_shut.todo) -> Outcomes] : ShutdownResume(o, outs)

SpecShutdown == InitShutdown /\ [][NextShutdown]_vars

\* The same with the call of shutdown observed.
NextShutdownObserved ==
    \/ \E k \in Kinds : Add(k)
    \/ \E k \in Kinds, o \in Outcomes : TimerFire(k, o)
    \/ \E k \in Kinds, o \in Outcomes : FlushRun(k, o)
    \/ \E b \in bp_inflight, o \in {"return", "raise"} : ProcFinish(b, o)
    \/ \E order \in PendingKeys :
          \E outs \in [1..Len(order) -> Outcomes] : Shutdown(order, outs, TRUE)
    \/ \E o \in {"return", "raise"},
          outs \in [1..Len(bp_shut.todo) -> Outcomes] : ShutdownResume(o, outs)

SpecShutdownObserved == InitShutdown /\ [][NextShutdownObserved]_vars

\* The BatchProcessor (max_retries is 1, adaptive is off) on an event loop that
\* runs every task that is ready: a timer task whose sleep is due (line 121) and
\* a flush task made by add (line 114) are eventually run.
SpecFair ==
    /\ InitShutdown /\ [][Next]_vars
    /\ \A k \in Kinds : WF_vars(\E o \in Outcomes : TimerFire(k, o))
    /\ \A k \in Kinds : WF_vars(\E o \in Outcomes : FlushRun(k, o))

\* ---- BatchProcessor with adaptive tuning on and processors of every speed.
InitTuning ==
    /\ BPAtRest([max_retries : {0, 1}, adaptive : {TRUE}])
    /\ InitRL /\ InitRM /\ InitCache({FALSE})

NextTuning ==
    \/ \E k \in Kinds : Add(k)
    \/ \E k \in Kinds, o \in Returns \cup {"raise", "suspend"} : TimerFire(k, o)
    \/ \E k \in Kinds, o \in Returns \cup {"raise", "suspend"} : FlushRun(k, o)
    \/ \E b \in bp_inflight, o \in Returns \cup {"raise"} : ProcFinish(b, o)

SpecTuning == InitTuning /\ [][NextTuning]_vars

\* ---- BatchProcessor with the clock followed, retries allowed.
InitBackoff ==
    /\ BPAtRestAt([max_retries : {1, 2}, adaptive : {FALSE}], TRUE)
    /\ InitRL /\ InitRM /\ InitCache({FALSE})

NextBackoff == Next \/ BPTick

SpecBackoff == InitBackoff /\ [][NextBackoff]_vars

SpecRL == InitRateLimiter /\ [][NextRateLimiter]_vars

\* The ResourceManager and callers that release only what they hold.
InitResourceManager ==
    BPAtRest({[max_retries |-> 0, adaptive |-> TRUE]}) /\ InitRL /\ InitRM /\ InitCache({FALSE})

NextResourceManager ==
    \/ \E t \in Callers, c \in Classes, w \in BOOLEAN, s \in BOOLEAN :
          RMCall(t, "acquire", <<c>>, w, s)
    \/ \E t \in Callers, r \in Requests, w \in BOOLEAN, s \in BOOLEAN :
          RMCall(t, "multi", r, w, s)
    \/ \E t \in Callers, s \in BOOLEAN : RMSemGrant(t, s)
    \/ \E t \in Callers, s \in BOOLEAN : RMLockGrant(t, s)
    \/ \E t \in Callers, s \in BOOLEAN : RMWake(t, s)
    \/ \E t \in Callers, c \in Classes : RMRelease(t, c)
    \/ RMTick

SpecRM == InitResourceManager /\ [][NextResourceManager]_vars

\* The same with release calls that no acquire precedes.
NextResourceManagerAnyRelease ==
    \/ NextResourceManager
    \/ \E t \in Callers, c \in Classes : RMReleaseUnmatched(t, c)

SpecRMAnyRelease == InitResourceManager /\ [][NextResourceManagerAnyRelease]_vars

\* The requests of the callers of acquire_multiple(wait=True) that ask of no
\* class more than its max_concurrent.
ModestRequests ==
    {[n \in 1..DefaultConcurrent |-> "default"], <<"default", "other">>}

\* Caller t holds no slot.
HoldsNothing(t) == \A c \in Classes : rm_task[t].held[c] = 0

\* Callers of acquire_multiple(wait=True) that release all they hold before
\* they call again.  Time passes, sleeps end, a caller that holds slots releases
\* them, and asyncio wakes the waiters of a semaphore and of a lock in the order
\* of their arrival, so that none is passed over for ever.
NextResourceManagerWaiting ==
    \/ \E t \in Callers, r \in ModestRequests, s \in BOOLEAN :
          HoldsNothing(t) /\ RMCall(t, "multi", r, TRUE, s)
    \/ \E t \in Callers, s \in BOOLEAN : RMSemGrant(t, s)
    \/ \E t \in Callers, s \in BOOLEAN : RMLockGrant(t, s)
    \/ \E t \in Callers, s \in BOOLEAN : RMWake(t, s)
    \/ \E t \in Callers, c \in Classes : RMRelease(t, c)
    \/ RMTick

SpecRMFair ==
    /\ InitResourceManager /\ [][NextResourceManagerWaiting]_vars
    /\ \A t \in Callers : SF_vars(\E s \in BOOLEAN : RMSemGrant(t, s))
    /\ \A t \in Callers : SF_vars(\E s \in BOOLEAN : RMLockGrant(t, s))
    /\ \A t \in Callers : WF_vars(\E s \in BOOLEAN : RMWake(t, s))
    /\ \A t \in Callers : WF_vars(\E c \in Classes : RMRelease(t, c))
    /\ WF_vars(RMTick)

\* Callers of acquire and acquire_multiple that wait, and whose task can be
\* cancelled in the rate limiter.
NextResourceManagerCancelled ==
    \/ \E t \in Callers, c \in Classes, s \in BOOLEAN :
          RMCall(t, "acquire", <<c>>, TRUE, s)
    \/ \E t \in Callers, r \in ModestRequests, s \in BOOLEAN :
          RMCall(t, "multi", r, TRUE, s)
    \/ \E t \in Callers, s \in BOOLEAN : RMSemGrant(t, s)
    \/ \E t \in Callers, s \in BOOLEAN : RMLockGrant(t, s)
    \/ \E t \in Callers, s \in BOOLEAN : RMWake(t, s)
    \/ \E t \in Callers, c \in Classes : RMRelease(t, c)
    \/ \E t \in Callers : RMCancel(t)
    \/ RMTick

SpecRMCancelled == InitResourceManager /\ [][NextResourceManagerCancelled]_vars

\* Callers that use one ResourceContext object in `async with`, one after the
\* other, beside callers of acquire and release.
NextResourceManagerContext ==
    \/ \E t \in Callers : ContextEnter(t)
    \/ \E t \in Callers : ContextExit(t)
    \/ \E t \in Callers, c \in Classes, s \in BOOLEAN :
          rm.ctx.inside # t /\ RMCall(t, "acquire", <<c>>, TRUE, s)
    \/ \E t \in Callers, s \in BOOLEAN : RMSemGrant(t, s)
    \/ \E t \in Callers, s \in BOOLEAN : RMLockGrant(t, s)
    \/ \E t \in Callers, s \in BOOLEAN : RMWake(t, s)
    \/ \E t \in Callers, c \in Classes : rm.ctx.inside # t /\ RMRelease(t, c)
    \/ RMTick

SpecRMContext == InitResourceManager /\ [][NextResourceManagerContext]_vars

\* The ResourceManager with its usage statistics followed, and callers of
\* acquire and release.
InitResourceManagerUsage ==
    /\ BPAtRest({[max_retries |-> 0, adaptive |-> TRUE]}) /\ InitRL
    /\ InitRMTracked /\ InitCache({FALSE})

NextResourceManagerUsage ==
    \/ \E t \in Callers, c \in Classes, w \in BOOLEAN, s \in BOOLEAN :
          RMCall(t, "acquire", <<c>>, w, s)
    \/ \E t \in Callers, s \in BOOLEAN : RMSemGrant(t, s)
    \/ \E t \in Callers, s \in BOOLEAN : RMLockGrant(t, s)
    \/ \E t \in Callers, s \in BOOLEAN : RMWake(t, s)
    \/ \E t \in Callers, c \in Classes : RMRelease(t, c)
    \/ RMTick

SpecRMUsage == InitResourceManagerUsage /\ [][NextResourceManagerUsage]_vars

\* The ResourceManager with its usage statistics followed, and callers of
\* acquire, release and configure_resource.
NextResourceManagerConfigured ==
    \/ NextResourceManagerUsage
    \/ \E c \in Classes, n \in ConfigurableLimits : RMConfigure(c, n)

SpecRMConfigured == InitResourceManagerUsage /\ [][NextResourceManagerConfigured]_vars

\* The CacheManager.
InitCacheManager ==
    BPAtRest({[max_retries |-> 0, adaptive |-> TRUE]}) /\ InitRL /\ InitRM /\ InitCache(BOOLEAN)

NextCacheManager ==
    \/ \E k \in CacheKeys, f \in BOOLEAN, g \in BOOLEAN : CacheGet(k, f, g)
    \/ \E k \in CacheKeys, v \in CacheValues, ttl \in Ttls, l \in LevelSets,
          f \in BOOLEAN : CacheSet(k, v, ttl, l, f)
    \/ \E k \in CacheKeys, f \in BOOLEAN : CacheDelete(k, f)
    \/ \E l \in LevelSets, f \in BOOLEAN : CacheClear(l, f)
    \/ \E d \in WarmDicts, f \in BOOLEAN : CacheWarm(d, f)
    \/ \E op \in CacheOps, k \in CacheKeys, v \in CacheValues :
          CacheConnectFails(op, k, v)
    \/ CacheTick

SpecCache == InitCacheManager /\ [][NextCacheManager]_vars

\* ---- CacheManager over a database file that holds rows of an earlier run,
\* tier 2 not configured, with calls that overlap.  The values are those that
\* json gives back as they were.
RaceValues == {"s", "lst"}

InitCacheRace ==
    /\ BPAtRest({[max_retries |-> 0, adaptive |-> TRUE]}) /\ InitRL /\ InitRM
    /\ cache \in {[c EXCEPT !.l3 = rows] :
                     c \in [l1 : {<<>>}, l1_size : {L1Size}, l2_client : {FALSE},
                            l2 : {[k \in CacheKeys |-> Absent]},
                            l3 : {[k \in CacheKeys |-> Absent]},
                            l2_enabled : {FALSE},
                            stats : {[l1 |-> ZeroStats, l2 |-> ZeroStats,
                                      l3 |-> ZeroStats]},
                            ops : {0}, tasks : {NoCacheTasks}],
                     rows \in [CacheKeys ->
                                {Absent} \cup
                                {[text |-> Dumps(v), expires |-> FALSE, left |-> 0] :
                                    v \in RaceValues}]}
    /\ cache_run = NoCacheRun

NextCacheRace ==
    \/ \E k \in CacheKeys : CacheGetRead(k)
    \/ CacheGetPromote
    \/ \E k \in CacheKeys, v \in RaceValues : CacheSetBegin(k, v)
    \/ \E k \in CacheKeys : CacheDeleteBegin(k)
    \/ CacheWriteEnd

SpecCacheRace == InitCacheRace /\ [][NextCacheRace]_vars

\* One L1Cache and the callers of its get and set.
InitL1 ==
    BPAtRest({[max_retries |-> 0, adaptive |-> TRUE]}) /\ InitRL /\ InitRM /\ InitL1Cache

NextL1 ==
    \/ \E k \in L1Keys : L1CacheGet(k)
    \/ \E k \in L1Keys, v \in CacheValues : L1CacheSet(k, v)

SpecL1 == InitL1 /\ [][NextL1]_vars

-----------------------------------------------------------------------------
(* Claims about the BatchProcessor *)

\* Something will still act on item i: it is queued for a kind whose timer is
\* armed or for which a flush task is scheduled, or it is in a suspended
\* processor invocation.
Held(i) ==
    \/ /\ i \in SeqToSet(bp_pending[bp_item[i].kind])
       /\ \/ bp_timers[bp_item[i].kind] = "armed"
          \/ bp_sched[bp_item[i].kind] > 0
          \/ bp_item[i].kind \in SeqToSet(bp_shut.todo)
    \/ \E b \in bp_inflight : i \in SeqToSet(b)
    \/ i \in SeqToSet(bp_shut.batch)

\* C1: every item submitted with add is resolved exactly once: its future is
\* never resolved twice, and while it is unresolved the item is still held by
\* the batch processor (queued with a timer armed or a flush scheduled, or in a
\* running processor invocation), so that it cannot stay pending forever.
C1_ResolvedExactlyOnce ==
    \A i \in ItemIds :
        /\ bp_resolved[i] <= 1
        /\ bp_item[i].state \in {"ok", "failed"} => bp_resolved[i] = 1
        /\ bp_item[i].state = "pending" => bp_resolved[i] = 0 /\ Held(i)

\* No invocation of the processor of kind k has returned.
AlwaysRaised(k) == \A i \in ItemIds : ~(bp_item[i].kind = k /\ bp_item[i].state = "ok")

\* C6: with a processor that raises on every invocation, a submitted item is
\* handed to the processor at most 1 + max_retries times, is resolved with the
\* failure (once) exactly when it has been handed 1 + max_retries times, and
\* until then is still held for its next attempt (no item is lost).
C6_RetryTermination ==
    \A i \in ItemIds :
        (bp_item[i].state # "new" /\ AlwaysRaised(bp_item[i].kind)) =>
            /\ Handed(i) <= bp_cfg.max_retries + 1
            /\ bp_item[i].state = "failed" =>
                  Handed(i) = bp_cfg.max_retries + 1 /\ bp_resolved[i] = 1
            /\ bp_item[i].state = "pending" => bp_resolved[i] = 0 /\ Held(i)

\* C7: every item whose future is unresolved has retry_count <= max_retries.
C7_RetryCountBounded ==
    \A i \in ItemIds :
        bp_item[i].state = "pending" => bp_item[i].retry <= bp_cfg.max_retries

\* C7 witness: an unresolved item that has used all its retries is queued again.
C7_Witness ==
    \E i \in ItemIds :
        /\ bp_cfg.max_retries >= 1
        /\ bp_item[i].state = "pending"
        /\ bp_item[i].retry = bp_cfg.max_retries
        /\ i \in SeqToSet(bp_pending[bp_item[i].kind])

\* The invocations of kind k's processor that received an item of items.
InvocationsOf(k, items) ==
    {n \in 1..Len(bp_calls[k]) : SeqToSet(bp_calls[k][n]) \cap SeqToSet(items) # {}}

\* C8 as stated: once exactly T never-flushed items are queued for a kind whose
\* threshold is T and the timer has not fired, a flush is scheduled, and once it
\* has run exactly one processor invocation has received any of those items, and
\* it received exactly those T items in submission order.
C8_ThresholdFlushOnce ==
    \A k \in Kinds :
        /\ bp_scen[k].phase = "waiting" => bp_sched[k] >= 1
        /\ bp_scen[k].phase = "flushed" =>
              /\ Cardinality(InvocationsOf(k, bp_scen[k].items)) = 1
              /\ \A n \in InvocationsOf(k, bp_scen[k].items) :
                    bp_calls[k][n] = bp_scen[k].items

\* C8 amended: when no other flush of the kind is scheduled or in flight, the
\* threshold flush is scheduled, drains exactly those T items, and is the first
\* invocation that receives any of them, with exactly those T items in
\* submission order; an item is handed to the processor again only as a retry
\* (at most 1 + retry_count times), so exactly once when that invocation
\* returns.
C8_ThresholdFlushOnceQuiet ==
    \A k \in Kinds :
        bp_scen[k].quiet =>
            /\ bp_scen[k].phase = "waiting" =>
                  bp_sched[k] >= 1 /\ bp_pending[k] = bp_scen[k].items
            /\ bp_scen[k].phase = "flushed" =>
                  /\ InvocationsOf(k, bp_scen[k].items) # {}
                  /\ \A n \in InvocationsOf(k, bp_scen[k].items) :
                        \/ bp_calls[k][n] = bp_scen[k].items
                        \/ \E m \in InvocationsOf(k, bp_scen[k].items) : m < n
                  /\ \A i \in SeqToSet(bp_scen[k].items) :
                        /\ Handed(i) >= 1
                        /\ Handed(i) <= bp_item[i].retry + 1

\* C8 witness: a threshold flush of two items has run and its processor returned.
C8_Witness ==
    \E k \in Kinds :
        /\ bp_scen[k].phase = "flushed" /\ bp_scen[k].quiet
        /\ Len(bp_scen[k].items) = 2
        /\ \A i \in SeqToSet(bp_scen[k].items) : bp_item[i].state = "ok"
        /\ \E n \in 1..Len(bp_calls[k]) : bp_calls[k][n] = bp_scen[k].items

-----------------------------------------------------------------------------
(* Claims about the RateLimiter and the ResourceManager *)

\* C5: in every reachable state the RateLimiter's token level is at least 0 and
\* at most burst_size, whatever acquire(n) and try_acquire(n) calls were made,
\* with n above burst_size and with callers queued behind a sleeping caller.
C5_TokensWithinBurst ==
    /\ rl.tokens >= 0
    /\ rl.tokens <= BurstSize * TicksPerToken

\* A caller that asked for more than burst_size tokens has slept and returned
\* (the level is pinned at 0) while another caller is queued for the lock.
C5_Witness ==
    \E t \in Callers, u \in Callers :
        /\ rl_task[t].pc = "idle" /\ rl_task[t].n > BurstSize /\ rl_task[t].ret > 0
        /\ rl_task[u].pc = "locking"
        /\ rl.tokens = 0

\* C2: for every resource class the active count is at most the class's
\* max_concurrent, in every state reachable by acquire, acquire_multiple and
\* release calls, release calls without a prior acquire included.
C2_ActiveWithinLimit ==
    \A c \in Classes : rm.active[c] <= MaxConcurrentOf(c)

\* C3: when acquire_multiple has returned False, the call has left every class's
\* semaphore value and active count as they were: what the call added to them
\* is zero for every class.
C3_AllOrNothing ==
    \A t \in Callers :
        (rm_task[t].op = "multi" /\ rm_task[t].ret = 0)
            => /\ rm_task[t].net_sem = ZeroNet
               /\ rm_task[t].net_active = ZeroNet

\* An acquire_multiple call has returned False after it had acquired two units.
C3_Witness ==
    \E t \in Callers :
        rm_task[t].op = "multi" /\ rm_task[t].ret = 0 /\ rm_task[t].rolled >= 2

\* The results C9 states for a class c: max_concurrent admissions, a rejection,
\* then after the release an admission.
GateSaturation(c) ==
    [n \in 1..(MaxConcurrentOf(c) + 3) |->
        IF n <= MaxConcurrentOf(c) THEN "admit"
        ELSE IF n = MaxConcurrentOf(c) + 1 THEN "reject"
        ELSE IF n = MaxConcurrentOf(c) + 2 THEN "release"
        ELSE "admit"]

\* C9: starting with no slot of a class held, successive non-waiting acquires of
\* the class admit the first max_concurrent of them and reject the next one; after
\* one release the next acquire of the class succeeds.
C9_GateSaturation ==
    rm_run.c # "none" =>
        /\ Len(rm_run.log) <= MaxConcurrentOf(rm_run.c) + 3
        /\ \A n \in 1..Len(rm_run.log) : rm_run.log[n] = GateSaturation(rm_run.c)[n]

\* The whole sequence has been made: the admissions, the rejection, the release
\* and the acquire after it.
C9_Witness ==
    /\ rm_run.c # "none"
    /\ Len(rm_run.log) = MaxConcurrentOf(rm_run.c) + 3

-----------------------------------------------------------------------------
(* Claims about the CacheManager *)

\* C4: in every reachable state tier 1 holds at most l1_size entries, whatever
\* set, get (with its promotions), delete, clear and warm_cache calls were made.
C4_L1WithinCapacity == Len(cache.l1) <= L1Size

\* Tier 1 is full and has evicted an entry for a promotion.
C4_Witness ==
    /\ Len(cache.l1) = L1Size
    /\ cache.stats.l1.evictions >= 1
    /\ cache.stats.l1.promotions >= 1

\* C10 as stated: after set(key, v) has written all tiers and clear of tier 1 only,
\* get(key) returns v, the promotion count of tier 1 has risen by exactly 1 and
\* key is in tier 1 again.
C10_ReadThroughPromotion ==
    cache_run.phase = "got" =>
        /\ cache_run.ret = cache_run.v
        /\ cache_run.promoted = 1
        /\ cache_run.in_l1

\* C10 amended: the same for a value v that is not None and that json.loads
\* gives back from json.dumps unchanged.
C10_ReadThroughPromotionOfJsonValue ==
    (/\ cache_run.phase = "got"
     /\ cache_run.v # "none"
     /\ Loads(Dumps(cache_run.v)) = cache_run.v)
        => /\ cache_run.ret = cache_run.v
           /\ cache_run.promoted = 1
           /\ cache_run.in_l1

\* The sequence has been made on a string value with tier 2 enabled, and the
\* get found the value in tier 2.
C10_Witness ==
    /\ cache_run.phase = "got"
    /\ cache_run.v = "s"
    /\ cache.l2_enabled
    /\ cache.stats.l2.hits = 1

\* The keys of held that no key of held was used after.
LeastRecent(held, used) == {k \in held : \A o \in held : used[k] <= used[o]}

\* C11: tier 1 is a bounded LRU.  A set of a key it does not hold, at maxsize
\* entries, removes exactly one entry, the one least recently read or written,
\* and adds one to the eviction count; any other set removes nothing and leaves
\* the count; a get removes nothing; and after maxsize + 1 sets of distinct keys
\* into the empty cache it holds maxsize entries, has counted one eviction and
\* does not hold the first key.
C11_LruEviction ==
    LET run == cache_run
        now == LruKeys(cache.l1)
        ev == cache.stats.l1.evictions
    IN /\ run.phase = "set" =>
             IF run.key \notin run.held /\ Cardinality(run.held) = cache.l1_size
             THEN /\ \E lru \in LeastRecent(run.held, run.used) :
                        now = (run.held \ {lru}) \cup {run.key}
                  /\ Cardinality(LeastRecent(run.held, run.used)) = 1
                  /\ ev = run.evictions + 1
             ELSE now = run.held \cup {run.key} /\ ev = run.evictions
       /\ run.phase = "get" => now = run.held /\ ev = run.evictions
       /\ (run.distinct /\ cache.ops = cache.l1_size + 1) =>
             /\ Len(cache.l1) = cache.l1_size
             /\ ev = 1
             /\ run.first \notin now

\* C11 witness: the set of a new key at maxsize entries evicted a key that was
\* inserted after a key that is still held, which a get had made more recent.
C11_Witness ==
    /\ cache_run.phase = "set"
    /\ cache_run.key \notin cache_run.held
    /\ Cardinality(cache_run.held) = cache.l1_size
    /\ \E gone \in cache_run.held \ LruKeys(cache.l1), kept \in LruKeys(cache.l1) :
          /\ cache_run.written[kept] < cache_run.written[gone]
          /\ cache_run.used[kept] > cache_run.written[kept]

\* C11 second witness: maxsize + 1 sets of distinct keys into the empty cache.
C11_WitnessDistinct ==
    cache_run.distinct /\ cache.ops = cache.l1_size + 1

\* C12: after set(key, v, ttl=0) to all tiers and the passing of time, get(key)
\* returns None and tier 3 has counted an eviction in that get.
C12_TtlZeroExpires ==
    cache_run.phase = "ttl0_got" =>
        cache_run.ret = "none" /\ cache_run.evicted >= 1

\* C13: from a full bucket, burst_size acquire(1) calls at one instant all
\* return 0 and leave the level at 0; the acquire(n) that comes next and finds
\* less than n tokens after the refill sleeps at least deficit / rate, returns
\* deficit / rate and leaves the level at 0.
C13_BurstThenWait ==
    /\ rl_run.phase # "broken"
    /\ rl_run.phase = "drained" => rl.tokens = 0
    /\ rl_run.phase = "done" =>
          /\ rl_run.slept >= rl_run.deficit
          /\ rl_run.ret = rl_run.deficit
          /\ rl.tokens = 0

\* C13 witness: after the burst and some refill, an acquire slept and returned.
C13_Witness ==
    /\ rl_run.phase = "done"
    /\ rl_run.from > rl_run.at
    /\ rl_run.deficit > 0

\* C14: an add for a kind that has no registered processor raises and changes
\* nothing: no queue, no timer, no scheduled flush, no item, no counter of the
\* statistics, no processor invocation.
C14_UnregisteredAddChangesNothing ==
    [][bp_obs'.errors # bp_obs.errors =>
          UNCHANGED <<bp_pending, bp_timers, bp_sched, bp_stats, bp_item,
                      bp_calls, bp_inflight>>]_vars

\* C14 witness: such an add raised while an item was queued with its timer armed.
C14_Witness ==
    /\ bp_obs.errors >= 1
    /\ \E k \in Kinds : bp_pending[k] # <<>> /\ bp_timers[k] = "armed"

\* C15: no get, set, delete or clear of the CacheManager ends with an exception
\* of the tier-2 backend.
C15_Tier2FailureNotPropagated == cache_run.phase # "raised"

\* C16: once shutdown has returned, every item that was in a queue when it was
\* called has been handed to a processor invocation since the call, and none is
\* dropped: each is resolved or still held for a further attempt, whether the
\* processor returned or raised.
C16_ShutdownFlushesAll ==
    bp_shut.pc = "returned" =>
        \A q \in bp_shut.queued :
            /\ Handed(q[1]) > q[2]
            /\ bp_item[q[1]].state \in {"ok", "failed"} \/ Held(q[1])

\* C17: a caller of try_acquire is never suspended: it never waits for the
\* limiter's lock.
C17_TryAcquireNeverSuspends ==
    \A t \in Callers : rl_task[t].op = "try_acquire" => rl_task[t].pc = "idle"

\* C18: no processor invocation that was started, by a threshold flush, a timer
\* flush or the flush of shutdown, is cancelled: none gets CancelledError.
C18_InvocationNeverCancelled == bp_obs.cancelled = {}

\* A processor invocation is suspended: it has started and not yet ended.
InFlight == bp_inflight # {} \/ bp_shut.pc = "running"

\* The batches of the suspended invocations.
InFlightBatches ==
    bp_inflight \cup (IF bp_shut.pc = "running" THEN {bp_shut.batch} ELSE {})

\* C19: while a processor invocation is suspended the lock is free and an add,
\* for the same kind or another, is not held up; an add made then has its item
\* in the kind's queue, leaves the kind with an armed timer, and schedules a
\* flush when the queue has reached the threshold.
C19_LockFreeWhileProcessing ==
    /\ [](InFlight =>
            /\ ~bp_lock
            /\ bp_stats.total_items < MaxItems => \A k \in Kinds : ENABLED Add(k))
    /\ [][(InFlight /\ bp_stats'.total_items = bp_stats.total_items + 1) =>
            LET i == bp_stats'.total_items
                k == bp_item'[i].kind
            IN /\ bp_pending'[k] = Append(bp_pending[k], i)
               /\ bp_timers'[k] = "armed"
               /\ Len(bp_pending'[k]) >= GetBatchSize(k) =>
                     bp_sched'[k] = bp_sched[k] + 1]_vars

\* C19 witness: while an invocation of a kind is suspended, items of that kind
\* that were added after its drain are queued with a timer armed, and they
\* have reached the threshold and scheduled a further flush.
C19_Witness ==
    \E b \in InFlightBatches :
        LET k == bp_item[b[1]].kind
        IN /\ bp_pending[k] # <<>>
           /\ \A j \in SeqToSet(bp_pending[k]) :
                 /\ bp_item[j].retry = 0
                 /\ \A i \in SeqToSet(b) : j > i
           /\ bp_timers[k] = "armed"
           /\ Len(bp_pending[k]) >= GetBatchSize(k)
           /\ bp_sched[k] >= 1

\* The number of times item i was put in a queue: by add and by each retry.
Enqueues(i) == IF bp_item[i].state = "new" THEN 0 ELSE bp_item[i].retry + 1

\* The number of places item i has in the queues.
Queued(i) ==
    Cardinality({<<k, n>> \in Kinds \X (1..MaxItems) :
                    n <= Len(bp_pending[k]) /\ bp_pending[k][n] = i})

\* C20: a flush drains the whole queue of its kind and cancels the kind's
\* timer in one step.  No processor invocation gets an empty list; each time
\* an item is queued it is handed to exactly one invocation (never to two
\* flushes): it is in a queue once and was handed once for each earlier time,
\* or it is in no queue and was handed once for each time; an invocation gets
\* the whole queue as it was; and right after the drain, when the processor
\* has suspended, the queue is empty and the kind has no timer.
C20_AtomicDrain ==
    /\ [](/\ \A k \in Kinds : \A n \in 1..Len(bp_calls[k]) : bp_calls[k][n] # <<>>
          /\ \A i \in ItemIds :
                /\ Queued(i) <= 1
                /\ Handed(i) + Queued(i) = Enqueues(i))
    /\ [][\A k \in Kinds :
            Len(bp_calls'[k]) > Len(bp_calls[k]) =>
               /\ Len(bp_calls'[k]) = Len(bp_calls[k]) + 1
               /\ bp_calls'[k][Len(bp_calls'[k])] = bp_pending[k]
               /\ (\/ bp_calls'[k][Len(bp_calls'[k])] \in bp_inflight' \ bp_inflight
                   \/ bp_calls'[k][Len(bp_calls'[k])] \in
                         bp_obs'.cancelled \ bp_obs.cancelled
                   \/ /\ bp_shut'.pc = "running"
                      /\ bp_shut'.batch = bp_calls'[k][Len(bp_calls'[k])]) =>
                     bp_pending'[k] = <<>> /\ bp_timers'[k] = "none"]_vars

\* C20 witness: a flush has drained a queue while a second flush task of the
\* kind is still to run: the processor has the items, the queue is empty and
\* the kind has no timer.
C20_Witness ==
    \E b \in bp_inflight :
        /\ bp_sched[bp_item[b[1]].kind] >= 1
        /\ bp_pending[bp_item[b[1]].kind] = <<>>
        /\ bp_timers[bp_item[b[1]].kind] = "none"
        /\ Len(b) > BatchSize

\* The first invocation of kind k's processor that received item i (0: none).
FirstHanded(k, i) ==
    IF \E n \in 1..Len(bp_calls[k]) : i \in SeqToSet(bp_calls[k][n])
    THEN CHOOSE n \in 1..Len(bp_calls[k]) :
            /\ i \in SeqToSet(bp_calls[k][n])
            /\ \A m \in 1..(n - 1) : i \notin SeqToSet(bp_calls[k][m])
    ELSE 0

\* C21: within a kind, every list handed to the processor has its items in
\* the order in which they were submitted (items are numbered in that order),
\* retried items included, and no item is first handed in a later invocation
\* than an item submitted after it.
C21_FifoWithinKind ==
    \A k \in Kinds :
        /\ \A n \in 1..Len(bp_calls[k]) :
              \A a, b \in 1..Len(bp_calls[k][n]) :
                 a < b => bp_calls[k][n][a] < bp_calls[k][n][b]
        /\ \A i, j \in ItemIds :
              (i < j /\ FirstHanded(k, i) > 0 /\ FirstHanded(k, j) > 0) =>
                 FirstHanded(k, i) <= FirstHanded(k, j)

\* C22: an acquire on a class that has no configuration takes a slot of that
\* class's own semaphore and a token of that class's own limiter: it changes
\* neither the semaphore value nor the token level of the class "default".
C22_UnconfiguredClassIsolated ==
    [][(\E t \in Callers, w \in BOOLEAN, s \in BOOLEAN :
            RMCall(t, "acquire", <<"other">>, w, s)) =>
          /\ rm'.sem["default"] = rm.sem["default"]
          /\ rm'.lim["default"].level = rm.lim["default"].level]_vars

\* The entry a tier holds for value when it expires lifetime ticks from now.
ExpiringEntry(value, lifetime) ==
    [text |-> Dumps(value), expires |-> TRUE, left |-> lifetime]

\* The lifetime set(..., ttl) asks for: the given ttl, the manager's default
\* (l2_ttl, line 305) when none is given.
LifetimeOf(ttl) == IF ttl = NoTtl THEN L2Ttl ELSE ttl

\* C23: set(key, value, ttl, levels), the backend of tier 2 answering, writes
\* the requested tiers and leaves the others as they were: tier 1 holds value at
\* key, and the entries of tier 2 (when configured) and tier 3 hold value and
\* expire after the given ttl, after the manager's default when none is given
\* (ttl = 0 is left to C12).
C23_SetWritesRequestedTiers ==
    [][\A key \in CacheKeys, value \in CacheValues, ttl \in Ttls \ {0},
          levels \in LevelSets :
          CacheSet(key, value, ttl, levels, FALSE) =>
             /\ IF 1 \in levels
                THEN LruHas(cache'.l1, key) /\ LruValue(cache'.l1, key) = value
                ELSE cache'.l1 = cache.l1
             /\ IF 2 \in levels /\ cache.l2_enabled
                THEN cache'.l2 = [cache.l2 EXCEPT
                                    ![key] = ExpiringEntry(value, LifetimeOf(ttl))]
                ELSE cache'.l2 = cache.l2
             /\ IF 3 \in levels
                THEN cache'.l3 = [cache.l3 EXCEPT
                                    ![key] = ExpiringEntry(value, LifetimeOf(ttl))]
                ELSE cache'.l3 = cache.l3]_vars

\* No tier of the cache c holds key.
HeldNowhere(c, key) ==
    ~LruHas(c.l1, key) /\ c.l2[key] = Absent /\ c.l3[key] = Absent

\* C24: when delete(key) returns no tier holds key, and when clear() of all
\* levels returns no tier holds any key, whether or not the backend of tier 2
\* failed in the call.
C24_DeleteAndClearReachEveryTier ==
    [][/\ \A key \in CacheKeys, fail \in BOOLEAN :
             CacheDelete(key, fail) => HeldNowhere(cache', key)
       /\ \A fail \in BOOLEAN :
             CacheClear({1, 2, 3}, fail) =>
                \A key \in CacheKeys : HeldNowhere(cache', key)]_vars

\* A quotient num / den kept as its two terms; 0.0 is 0 / 1.
Quotient(num, den) == [num |-> num, den |-> den]

\* Two quotients are the same number.
SameNumber(x, y) == x.num * y.den = y.num * x.den

\* _calculate_overall_hit_rate with the hits of tier 1 alone as total_hits.
CalculateL1HitRate(c) ==
    LET total_hits == c.stats.l1.hits
        total_requests == c.stats.l1.hits + c.stats.l1.misses
    IN IF total_requests > 0 THEN Quotient(total_hits, total_requests)
       ELSE Quotient(0, 1)

\* CacheManager._calculate_overall_hit_rate, lines 445-456.
CalculateOverallHitRate(c) ==
    LET total_hits == c.stats.l1.hits + c.stats.l2.hits + c.stats.l3.hits
        total_requests == c.stats.l1.hits + c.stats.l1.misses
    IN IF total_requests > 0 THEN Quotient(total_hits, total_requests)
       ELSE Quotient(0, 1)

\* CacheManager.get_stats, lines 424-443, with the tiers' get_stats (lines
\* 73-79, 172-174, 288-290); CacheStats.to_dict is left as the counters.
GetStats(c) ==
    [l1 |-> [stats |-> c.stats.l1, size |-> Len(c.l1), maxsize |-> c.l1_size],
     l2 |-> [stats |-> c.stats.l2, enabled |-> c.l2_enabled, ttl |-> L2Ttl],
     l3 |-> [stats |-> c.stats.l3],
     overall |->
        [total_hits |-> c.stats.l1.hits + c.stats.l2.hits + c.stats.l3.hits,
         total_misses |-> c.stats.l1.misses + c.stats.l2.misses + c.stats.l3.misses,
         overall_hit_rate |-> CalculateOverallHitRate(c)]]

\* The accesses of tier 1 so far.
L1Accesses == cache.stats.l1.hits + cache.stats.l1.misses

\* C25 as stated: the overall hit rate of get_stats is the hits of tier 1 over
\* the accesses of tier 1, and 0 when there was no access.
C25_OverallRateIsTier1Rate ==
    SameNumber(GetStats(cache).overall.overall_hit_rate,
               IF L1Accesses > 0 THEN Quotient(cache.stats.l1.hits, L1Accesses)
               ELSE Quotient(0, 1))

\* C25, amended: the overall hit rate of get_stats is the hits of all three
\* tiers over the accesses of tier 1, and 0 when there was no access.
C25_OverallRateCountsEveryTier ==
    SameNumber(GetStats(cache).overall.overall_hit_rate,
               IF L1Accesses > 0
               THEN Quotient(cache.stats.l1.hits + cache.stats.l2.hits
                               + cache.stats.l3.hits, L1Accesses)
               ELSE Quotient(0, 1))

\* Tier 1 and a lower tier have both had hits.
C25_Witness ==
    /\ cache.stats.l1.hits > 0
    /\ cache.stats.l2.hits + cache.stats.l3.hits > 0

\* get(key) of a cache made of tier 1 and tier 3 only: tier 1, then tier 3,
\* whose value is promoted to tier 1.
TwoTierGot(c, key) ==
    LET r1 == L1Get(c, key)
        r3 == L3Get(r1.c, key)
    IN IF r1.value # "none" THEN r1
       ELSE IF r3.value # "none"
            THEN [c |-> [L1Set(r3.c, key, r3.value) EXCEPT
                            !.stats.l1.promotions = @ + 1],
                  value |-> r3.value]
            ELSE r3

\* set(key, value, ttl, levels) of a cache made of tier 1 and tier 3 only.
TwoTierSet(c, key, value, ttl, levels) ==
    LET c1 == IF 1 \in levels THEN L1Set(c, key, value) ELSE c
    IN IF 3 \in levels THEN L3Set(c1, key, value, ttl) ELSE c1

\* C26: while tier 2 is not configured, get, set, delete and clear do what
\* they do on a cache made of tiers 1 and 3 only, no call ends with an
\* exception, tier 2 holds nothing, its hit, miss and promotion counters are 0
\* and its statistics report enabled = false.
C26_Tier2UnconfiguredIsInert ==
    ~cache.l2_enabled =>
       /\ cache_run.phase # "raised"
       /\ \A k \in CacheKeys : cache.l2[k] = Absent
       /\ GetStats(cache).l2.stats.hits = 0
       /\ GetStats(cache).l2.stats.misses = 0
       /\ GetStats(cache).l2.stats.promotions = 0
       /\ GetStats(cache).l2.enabled = FALSE
       /\ \A k \in CacheKeys :
             /\ Got(cache, k, FALSE, FALSE) = TwoTierGot(cache, k)
             /\ Deleted(cache, k, FALSE) =
                   [cache EXCEPT !.l1 = LruWithout(@, k), !.l3[k] = Absent]
             /\ \A v \in CacheValues, ttl \in Ttls, levels \in LevelSets :
                   SetIn(cache, k, v, ttl, levels, FALSE) =
                      TwoTierSet(cache, k, v, ttl, levels)
       /\ \A levels \in LevelSets :
             Cleared(cache, levels, FALSE) =
                [cache EXCEPT !.l1 = <<>>,
                              !.l3 = IF 3 \in levels
                                     THEN [k \in CacheKeys |-> Absent] ELSE @]

\* With tier 2 not configured, a get missed tier 1 and was answered by tier 3,
\* whose value was promoted.
C26_Witness ==
    /\ ~cache.l2_enabled
    /\ cache.stats.l1.misses > 0
    /\ cache.stats.l3.hits > 0
    /\ cache.stats.l1.promotions > 0

\* The tiers get consults in the cache c, in order: tier 2 only when configured.
Consulted(c) == IF c.l2_enabled THEN <<"l1", "l2", "l3">> ELSE <<"l1", "l3">>

\* Tier holds key in the cache c at the time of a get (tier 3 after the
\* removal of its expired rows).
TierHolds(c, tier, key) ==
    CASE tier = "l1" -> LruHas(c.l1, key)
      [] tier = "l2" -> c.l2[key] # Absent
      [] tier = "l3" -> c.l3[key] # Absent /\ ~Expired(c.l3[key])

\* The position among the consulted tiers of the first that holds key (0: none).
FirstHolding(c, key) ==
    LET at == {n \in 1..Len(Consulted(c)) : TierHolds(c, Consulted(c)[n], key)}
    IN IF at = {} THEN 0 ELSE CHOOSE n \in at : \A m \in at : n <= m

\* C27: a get(key) in which the backend of tier 2 answers records one hit at
\* the first consulted tier that holds key and one miss at each tier consulted
\* before it, changes no other hit or miss counter, and when no tier holds key
\* records one miss at each consulted tier and returns absent.
C27_GetStopsAtFirstHit ==
    [][\A key \in CacheKeys, fail_set \in BOOLEAN :
          CacheGet(key, FALSE, fail_set) =>
             LET tiers == Consulted(cache)
                 f == FirstHolding(cache, key)
                 missed == IF f = 0 THEN Len(tiers) ELSE f - 1
             IN /\ \A n \in 1..Len(tiers) :
                      /\ cache'.stats[tiers[n]].hits - cache.stats[tiers[n]].hits
                            = IF n = f THEN 1 ELSE 0
                      /\ cache'.stats[tiers[n]].misses - cache.stats[tiers[n]].misses
                            = IF n <= missed THEN 1 ELSE 0
                /\ f = 0 => Got(cache, key, FALSE, fail_set).value = "none"]_vars

\* C28: acquire(c, wait=False) on a class whose slots are all held returns False
\* in the step of the call, without suspending, and leaves the class's active
\* count, total_acquired, total_wait_time and max_concurrent, every semaphore's
\* free slots and every limiter's token level as they were.
C28_RefusedAcquireChangesNothing ==
    [][\A t \in Callers, c \in Classes, s \in BOOLEAN :
          (rm.sem[c] = 0 /\ RMCall(t, "acquire", <<c>>, FALSE, s)) =>
             /\ rm_task'[t].pc = "idle" /\ rm_task'[t].ret = 0
             /\ rm'.active = rm.active
             /\ rm'.usage = rm.usage
             /\ rm'.sem = rm.sem
             /\ rm'.lim = rm.lim]_vars

\* A non-waiting acquire has just been refused on a class whose slots are all
\* held, after acquires that were counted and that took time.
C28_Witness ==
    \E t \in Callers, c \in Classes :
       /\ rm_task[t].pc = "idle" /\ rm_task[t].ret = 0
       /\ rm_task[t].op = "acquire"
       /\ rm.sem[c] = 0
       /\ \A d \in Classes \ {c} : rm.sem[d] # 0
       /\ \A u \in Callers : rm_task[u].pc # "semwait"
       /\ rm.usage[c].total_acquired >= DefaultConcurrent
       /\ rm.usage[c].max_concurrent = DefaultConcurrent
       /\ rm.usage[c].total_wait_time > 0

\* The max_concurrent in force for the semaphore of class c: the one
\* configure_resource gave it, else the one it was created with.
InForce(c) == IF rm.configured[c] # 0 THEN rm.configured[c] ELSE MaxConcurrentOf(c)

\* C29: for every class that has a semaphore, get_availability and the
\* availability part of get_stats report as limit the max_concurrent in force
\* for the class and as utilization the active count over that limit.
C29_UtilizationOverLimitInForce ==
    \A c \in Classes, strict \in BOOLEAN :
       rm.sem[c] # -1 =>
          LET a == GetAvailability(rm, rm_task, c, strict)
          IN /\ a.limit = InForce(c)
             /\ a.utilization.num * InForce(c) = rm.active[c] * a.utilization.den
             /\ GetResourceStats(rm, rm_task, c, strict).availability = a

\* Item i is in the queue of its kind.
InQueue(i) == i \in SeqToSet(bp_pending[bp_item[i].kind])

\* C30: a kind has at most one timer entry, armed whenever it is live; while a
\* kind's queue is not empty (after an add or a retry) the kind's timer is
\* armed or a flush task is scheduled for it; a queue that is not empty is
\* emptied, whatever the threshold and without any further add; and the step
\* that empties it hands all its items to the processor in one invocation.
C30_QueuedItemsAreFlushed ==
    /\ [](\A k \in Kinds :
             /\ bp_timers[k] \in {"none", "armed"}
             /\ bp_pending[k] # <<>> => (bp_timers[k] = "armed" \/ bp_sched[k] > 0))
    /\ \A k \in Kinds : (bp_pending[k] # <<>>) ~> (bp_pending[k] = <<>>)
    /\ [][\A k \in Kinds :
             (bp_pending[k] # <<>> /\ bp_pending'[k] = <<>>) =>
                bp_calls'[k] = Append(bp_calls[k], bp_pending[k])]_vars

\* A retried item is back in its kind's queue, below the threshold, with the
\* timer armed and no flush scheduled.
C30_Witness ==
    \E i \in ItemIds :
       /\ InQueue(i) /\ bp_item[i].retry > 0
       /\ Len(bp_pending[bp_item[i].kind]) < GetBatchSize(bp_item[i].kind)
       /\ bp_timers[bp_item[i].kind] = "armed"
       /\ bp_sched[bp_item[i].kind] = 0

\* The step is the end of a successful processor invocation of kind k: an item
\* of the kind gets its result.
FlushSucceeded(k) ==
    \E i \in ItemIds :
       bp_item[i].kind = k /\ bp_item[i].state # "ok" /\ bp_item'[i].state = "ok"

\* C31: with adaptive tuning on, a successful flush of kind k raises the
\* kind's threshold T while it is below the cap 2 * BatchSize when the success
\* rate is above 0.95 (and leaves it at the cap), lowers it while it is above
\* 1 when the rate is below 0.8, and leaves it unchanged otherwise; the
\* threshold is always between 1 and 2 * BatchSize.
C31_ThresholdTuning ==
    /\ [](\A k \in Kinds :
             1 <= bp_batch_sizes[k] /\ bp_batch_sizes[k] <= 2 * BatchSize)
    /\ [][\A k \in Kinds :
             (bp_cfg.adaptive /\ FlushSucceeded(k)) =>
                LET rate == bp_success'[k]
                    T == bp_batch_sizes[k]
                    T2 == bp_batch_sizes'[k]
                IN IF rate * 20 > 19 * SrScale
                   THEN IF T < 2 * BatchSize
                        THEN T < T2 /\ T2 <= 2 * BatchSize
                        ELSE T2 = T
                   ELSE IF rate * 5 < 4 * SrScale
                        THEN IF T > 1 THEN 1 <= T2 /\ T2 < T ELSE T2 = T
                        ELSE T2 = T]_vars

\* The step is the end of a processor invocation of kind k with the given
\* outcome, in the timer's task, in a flush task of add, or after a suspension.
FlushEnded(k, outcome) ==
    \/ bp_pending[k] # <<>> /\ TimerFire(k, outcome)
    \/ bp_pending[k] # <<>> /\ FlushRun(k, outcome)
    \/ \E b \in bp_inflight : bp_item[b[1]].kind = k /\ ProcFinish(b, outcome)

\* C32: with adaptive tuning on, a successful flush of kind k whose wait window
\* is w makes the window min(1.2 w, 2.0 s) at more than 100 items per second,
\* max(0.8 w, 0.1 s) at fewer than 10, and leaves it w otherwise.
C32_WaitWindowTuning ==
    [][\A k \in Kinds, o \in Returns :
          (bp_cfg.adaptive /\ FlushEnded(k, o)) =>
             LET w == bp_wait_times[k]
             IN bp_wait_times'[k] =
                   CASE o = "return_fast" ->
                           IF 12 * w < 10 * LongestWait THEN (12 * w) \div 10
                           ELSE LongestWait
                     [] o = "return_slow" ->
                           IF 8 * w > 10 * ShortestWait THEN (8 * w) \div 10
                           ELSE ShortestWait
                     [] OTHER -> w]_vars

\* The items of the batch of a step: a failed flush increments the retry count
\* of each of its items or marks it failed.
BatchOfStep == {i \in ItemIds : bp_item'[i] # bp_item[i]}

RetriedInStep ==
    {i \in ItemIds : bp_item'[i].retry = bp_item[i].retry + 1}
GivenUpInStep ==
    {i \in ItemIds : bp_item[i].state # "failed" /\ bp_item'[i].state = "failed"}

\* C34: a failed flush increments and re-queues for its kind every item of the
\* batch whose retry count was below max_retries and resolves the others with
\* the failure; a re-queued item with retry count r is handed to the processor
\* again no earlier than BaseWait * 2^r after its re-queueing.
C34_RetryWaitsForBackoff ==
    /\ [][\A k \in Kinds :
             FlushEnded(k, "raise") =>
                \A i \in BatchOfStep :
                   IF bp_item[i].retry < bp_cfg.max_retries
                   THEN /\ i \in RetriedInStep
                        /\ bp_item'[i].kind = k
                        /\ i \in SeqToSet(bp_pending'[k])
                        /\ bp_resolved'[i] = bp_resolved[i]
                   ELSE /\ i \in GivenUpInStep
                        /\ bp_resolved'[i] = bp_resolved[i] + 1]_vars
    /\ [][\A i \in ItemIds :
             (bp_item[i].retry > 0 /\ Handed(i)' > Handed(i)) =>
                bp_time.now >= bp_time.since[i] + BaseWait * 2 ^ bp_item[i].retry]_vars

\* The step reads tier 3: L3Cache.get counts a hit or a miss.
L3Read ==
    cache'.stats.l3.hits + cache'.stats.l3.misses
       > cache.stats.l3.hits + cache.stats.l3.misses

\* C35: a step that reads tier 3 deletes exactly the rows whose expiry is at
\* or before the current time, adds their number to the tier-3 evictions, keeps
\* every other row, among them every row without an expiry, and does not
\* return the row of the key when its expiry has passed.
C35_Tier3LazyExpiry ==
    [][L3Read =>
          /\ \A k \in CacheKeys :
                cache'.l3[k] = IF Expired(cache.l3[k]) THEN Absent ELSE cache.l3[k]
          /\ cache'.stats.l3.evictions =
                cache.stats.l3.evictions
                   + Cardinality({k \in CacheKeys : Expired(cache.l3[k])})
          /\ \A k \in CacheKeys, f \in BOOLEAN, g \in BOOLEAN :
                (CacheGet(k, f, g) /\ Expired(cache.l3[k])) =>
                   /\ Got(cache, k, f, g).value = "none"
                   /\ cache'.stats.l3.hits = cache.stats.l3.hits]_vars

\* A read of tier 3 has swept a row and a row without an expiry is held.
C35_Witness ==
    /\ cache.stats.l3.evictions > 0
    /\ \E k \in CacheKeys : cache.l3[k] # Absent /\ ~cache.l3[k].expires

\* C36: a task suspended in the sleep of RateLimiter.acquire does not hold the
\* limiter's lock, and while a processor invocation is suspended the lock of
\* the BatchProcessor is free.
C36_NoLockAcrossSuspension ==
    /\ \A t \in Callers : rl_task[t].pc = "sleeping" => rl.lock # t
    /\ (bp_inflight # {} \/ bp_shut.pc = "running") => ~bp_lock

\* C37: a call of acquire_multiple(wait=True) that asks of no class more than
\* its max_concurrent, among callers that release what they hold, returns True.
C37_WaitingAcquireMultipleReturns ==
    \A t \in Callers :
       (rm_task[t].pc # "idle") ~> (rm_task[t].pc = "idle" /\ rm_task[t].ret = 1)

\* C38: when a set or a delete of a key that overlapped with a get of the key
\* has returned and no call is suspended, a get of the key returns the value
\* that was set, or nothing after a delete.
C38_RacedWriteWins ==
    LET t == cache.tasks
    IN (t.reader.pc = "idle" /\ t.writer.pc = "idle" /\ t.last.raced) =>
          Got(cache, t.last.key, FALSE, FALSE).value = t.last.value

\* C39: when no call is in progress and every caller that got a slot has
\* released it, the free slots of each class are max_concurrent minus active:
\* a call that did not return True has given back the slot it took.
C39_FailedAcquireReturnsItsSlot ==
    (AllIdle /\ \A t \in Callers : HoldsNothing(t)) =>
       \A c \in Classes :
          rm.sem[c] # -1 => rm.sem[c] = MaxConcurrentOf(c) - rm.active[c]

\* C40: when the ResourceContext object is outside its `async with`, no call
\* is in progress and no caller holds a slot, the active count of the object's
\* class is 0 and its semaphore has max_concurrent free slots, as before the
\* first enter.
C40_ContextIsBalanced ==
    (rm.ctx.inside = 0 /\ rm.ctx.cycles > 0 /\ AllIdle
       /\ \A t \in Callers : HoldsNothing(t)) =>
       /\ rm.active[ContextClass] = 0
       /\ rm.sem[ContextClass] = MaxConcurrentOf(ContextClass)

====
